---- MODULE Spec2Model ----
(***************************************************************************)
(* A model of the data pipeline of the CS439 vehicle dashboard:            *)
(*   cleaning.py               loaders, numeric cleaning, sports filter    *)
(*   enrich_sports_dataset.py  extraction of sports cars from the EPA      *)
(*                             table and merge into the sports table       *)
(*   plots_epa.py, plots_sports.py   yearly aggregates, normalization of   *)
(*                             the trend figures, fuel-share table         *)
(*   aggregates.py             yearly aggregates with a column check       *)
(*   plots_act3.py             index series of make_indices_chart          *)
(*   dashboard_app.py          the dashboard's own normalization and       *)
(*                             fuel-share pivot                            *)
(*                                                                         *)
(* Text is a sequence of one-character strings.                            *)
(***************************************************************************)
EXTENDS Integers, Sequences, FiniteSets, TLC

VARIABLES
    \* -- numeric cleaning of one cell (cleaning.py 289-295, enrich 121-128)
    nz_fn,        \* which cleaning loop runs: "enrich", "sports", "sports_mpg"
    nz_raw,       \* the cell as read from the table
    nz_cell,      \* the cell while the chain of calls works on it
    nz_pc,        \* position in the chain
    \* -- filter_sports_from_epa (cleaning.py 384-399)
    epa_columns,  \* columns of epa_df
    df_filtered,
    fl_pc,
    \* -- enrich_sports_dataset.py
    sports,            \* the raw sports table
    epa,               \* the raw EPA table (epa_df of filter_sports_from_epa)
    sports_from_epa,
    epa_sports_mapped,
    enriched_sports,
    mg_pc,
    \* -- load_and_clean_sports, load_and_clean_sports_with_mpg
    ld_fn,        \* "sports" or "sports_mpg"
    ld_columns,   \* columns of the table read
    ld_sports,    \* the table read
    sports_clean,
    ld_range,     \* <<year_min, year_max>>
    ld_printed,   \* what the call printed
    ld_pc,
    \* -- compute_epa_yearly_aggregates, compute_sports_yearly_aggregates
    ag_fn,        \* "epa" or "sports"
    ag_df,        \* the table passed in
    ag_columns,   \* its columns
    ag_args,      \* [year_min, year_max, filter]
    df_sub,
    grouped,      \* the rows returned
    ag_error,     \* the exception raised, if any
    ag_pc,
    \* -- compute_epa_yearly, compute_sports_yearly (aggregates.py)
    yr_fn,        \* "epa_yearly" or "sports_yearly"
    yr_df,        \* the table passed in
    yr_columns,   \* its columns
    yr_out,       \* the rows returned
    yr_error,     \* the exception raised, if any
    yr_pc,
    \* -- normalization of the trend figures (plots_epa.py 93-110,
    \*    plots_sports.py 98-115, dashboard_app.py 560-580)
    tr_fn,        \* "epa", "sports" or "dashboard"
    tr_normalize, \* the normalize argument
    yearly,       \* the rows of the yearly aggregator
    plot_df,
    tr_pc,
    \* -- make_indices_chart (plots_act3.py 100-181)
    ix_sports,    \* sports_df
    ix_epa,       \* epa_df
    ix_range,     \* <<year_min, year_max>>
    sports_filtered,
    epa_filtered,
    epa_gas,
    epa_ev,
    ix_yearly,    \* the six yearly means, by name of the series
    ix_index,     \* the index series built so far, by name
    ix_pc,
    \* -- fuel-share table (plots_epa.py 195-224, dashboard_app.py 966-1024)
    fs_fn,        \* "compute_fuel_share_by_year" or "update_fuel_share_chart"
    fs_df,        \* the EPA table
    fs_columns,   \* its columns
    fs_args,      \* [year_min, year_max, filter, chk_gas, chk_electric, use_percent]
    fs_sub,       \* df_sub
    fuel_counts,
    fuel_wide,
    fs_pc,
    \* -- the tables of the caller and the objects made from them
    heap,         \* the tables by reference: <<epa_df, sports_df>> between two calls
    fr_call,      \* the operation called last
    fr_result,    \* what the last one returned
    \* -- the control panel of Act1Tab (dashboard_app.py 120-138, 245-261, 809-838)
    year_min_spin,
    year_max_spin,
    cp_user,      \* the last change the user made: the spin box and the value
    cp_pending,   \* the slots of the signal being delivered that have not run yet
    cp_read,      \* the (year_min, year_max) the last chart update read
    \* -- Act1Tab.update_comparison_chart (dashboard_app.py 638-791)
    cmp_range,    \* <<year_min, year_max>>
    sports_yearly,
    epa_yearly,
    metrics_data,
    cmp_pc,
    \* -- the fuel check boxes of the control panel and the charts that read them
    db_epa,       \* self.epa_df
    db_range,     \* <<year_min, year_max>>
    chk_gas,
    chk_electric,
    db_chart,     \* the chart updated last
    db_read,      \* the check boxes as that update read them
    db_sub        \* the index labels of the records the chart was computed from

nzVars == <<nz_fn, nz_raw, nz_cell, nz_pc>>
flVars == <<epa_columns, df_filtered, fl_pc>>
mgVars == <<sports, epa, sports_from_epa, epa_sports_mapped, enriched_sports, mg_pc>>
ldVars == <<ld_fn, ld_columns, ld_sports, sports_clean, ld_range, ld_printed, ld_pc>>
agVars == <<ag_fn, ag_df, ag_columns, ag_args, df_sub, grouped, ag_error, ag_pc>>
yrVars == <<yr_fn, yr_df, yr_columns, yr_out, yr_error, yr_pc>>
trVars == <<tr_fn, tr_normalize, yearly, plot_df, tr_pc>>
ixVars == <<ix_sports, ix_epa, ix_range, sports_filtered, epa_filtered, epa_gas, epa_ev,
            ix_yearly, ix_index, ix_pc>>
fsVars == <<fs_fn, fs_df, fs_columns, fs_args, fs_sub, fuel_counts, fuel_wide, fs_pc>>
frVars == <<heap, fr_call, fr_result>>
cpVars == <<year_min_spin, year_max_spin, cp_user, cp_pending, cp_read>>
cmpVars == <<cmp_range, sports_yearly, epa_yearly, metrics_data, cmp_pc>>
dbVars == <<db_epa, db_range, chk_gas, chk_electric, db_chart, db_read, db_sub>>
vars == <<nzVars, flVars, mgVars, ldVars, agVars, yrVars, trVars, ixVars, fsVars, frVars, cpVars, cmpVars, dbVars>>
\* what an action of one component leaves alone
notNz == <<flVars, mgVars, ldVars, agVars, yrVars, trVars, ixVars, fsVars, frVars, cpVars, cmpVars, dbVars>>
notFl == <<nzVars, mgVars, ldVars, agVars, yrVars, trVars, ixVars, fsVars, frVars, cpVars, cmpVars, dbVars>>
notMg == <<nzVars, flVars, ldVars, agVars, yrVars, trVars, ixVars, fsVars, frVars, cpVars, cmpVars, dbVars>>
notLd == <<nzVars, flVars, mgVars, agVars, yrVars, trVars, ixVars, fsVars, frVars, cpVars, cmpVars, dbVars>>
notAg == <<nzVars, flVars, mgVars, ldVars, yrVars, trVars, ixVars, fsVars, frVars, cpVars, cmpVars, dbVars>>
notYr == <<nzVars, flVars, mgVars, ldVars, agVars, trVars, ixVars, fsVars, frVars, cpVars, cmpVars, dbVars>>
notTr == <<nzVars, flVars, mgVars, ldVars, agVars, yrVars, ixVars, fsVars, frVars, cpVars, cmpVars, dbVars>>
notIx == <<nzVars, flVars, mgVars, ldVars, agVars, yrVars, trVars, fsVars, frVars, cpVars, cmpVars, dbVars>>
notFs == <<nzVars, flVars, mgVars, ldVars, agVars, yrVars, trVars, ixVars, frVars, cpVars, cmpVars, dbVars>>
notFr == <<nzVars, flVars, mgVars, ldVars, agVars, yrVars, trVars, ixVars, fsVars, cpVars, cmpVars, dbVars>>
notCp == <<nzVars, flVars, mgVars, ldVars, agVars, yrVars, trVars, ixVars, fsVars, frVars, cmpVars, dbVars>>
notCmp == <<nzVars, flVars, mgVars, ldVars, agVars, yrVars, trVars, ixVars, fsVars, frVars, cpVars, dbVars>>
notDb == <<nzVars, flVars, mgVars, ldVars, agVars, yrVars, trVars, ixVars, fsVars, frVars, cpVars, cmpVars>>

(***************************************************************************)
(* Cell values: Null (NaN, None, pd.NA), text, int64 and float64 numbers.  *)
(* A float is (-1)^neg * m / 10^e in lowest form, an int (-1)^neg * m.     *)
(***************************************************************************)
Null == [t |-> "null"]
Txt(s) == [t |-> "str", s |-> s]
IntV(neg, m) == [t |-> "int", neg |-> neg, m |-> m]
Yr(y) == IntV(FALSE, y)

(***************************************************************************)
(* Sequences and text                                                      *)
(***************************************************************************)
Range(s) == {s[i] : i \in DOMAIN s}

RECURSIVE SeqsUpTo(_, _)
SeqsUpTo(S, n) ==
    IF n = 0 THEN {<<>>}
    ELSE LET shorter == SeqsUpTo(S, n - 1)
         IN  shorter \cup {Append(s, x) : s \in {t \in shorter : Len(t) = n - 1}, x \in S}

Remove(s, c) == SelectSeq(s, LAMBDA x : x # c)

Digits == <<"0", "1", "2", "3", "4", "5", "6", "7", "8", "9">>
DigitChars == Range(Digits)
DigitVal(c) == (CHOOSE i \in 1..10 : Digits[i] = c) - 1

RECURSIVE Pow10(_)
Pow10(k) == IF k = 0 THEN 1 ELSE 10 * Pow10(k - 1)

RECURSIVE DigitsOf(_)
DigitsOf(n) == IF n < 10 THEN <<Digits[n + 1]>>
               ELSE Append(DigitsOf(n \div 10), Digits[(n % 10) + 1])

RECURSIVE PadLeft(_, _)
PadLeft(s, w) == IF Len(s) >= w THEN s ELSE PadLeft(<<"0">> \o s, w)

RECURSIVE ValueOf(_)
ValueOf(s) == IF s = <<>> THEN 0
              ELSE 10 * ValueOf(SubSeq(s, 1, Len(s) - 1)) + DigitVal(s[Len(s)])

(***************************************************************************)
(* Numbers                                                                 *)
(***************************************************************************)
RECURSIVE Lowest(_)
Lowest(n) == IF n.e > 0 /\ n.m % 10 = 0
             THEN Lowest([n EXCEPT !.m = n.m \div 10, !.e = n.e - 1])
             ELSE n

Flt(neg, m, e) == Lowest([t |-> "float", neg |-> neg, m |-> m, e |-> e])
IsNumber(v) == v.t \in {"int", "float"}
AsFloat(v) == IF v.t = "int" THEN Flt(v.neg, v.m, 0) ELSE v
\* a == b of two cells holding numbers (NaN equals nothing)
SameNumber(a, b) == IsNumber(a) /\ IsNumber(b) /\ AsFloat(a) = AsFloat(b)

(***************************************************************************)
(* Numeric cleaning of a cell: the chain                                   *)
(*   col.astype(str).str.replace(",", "")[.str.replace("$", "")]           *)
(*      .str.extract(r"([0-9.]+)")[0]   then   pd.to_numeric(.., "coerce") *)
(* of cleaning.py 132-138, 289-295 and enrich_sports_dataset.py 121-128.   *)
(***************************************************************************)
\* repr of a float64 below 1e-4: d[.ddd]e-XX
ExpRepr(v) ==
    LET d == DigitsOf(v.m)
        x == v.e - (Len(d) - 1)
    IN  <<d[1]>> \o (IF Len(d) > 1 THEN <<".">> \o SubSeq(d, 2, Len(d)) ELSE <<>>)
        \o <<"e", "-">> \o PadLeft(DigitsOf(x), 2)

\* repr of a float64 from 1e-4 up (below 1e16): ddd.ddd
FixedRepr(v) ==
    LET p == Pow10(v.e)
    IN  DigitsOf(v.m \div p) \o <<".">>
        \o (IF v.e = 0 THEN <<"0">> ELSE PadLeft(DigitsOf(v.m % p), v.e))

\* Series.astype(str) on one cell
AsTypeStr(v) ==
    CASE v.t = "null"  -> <<"n", "a", "n">>
      [] v.t = "str"   -> v.s
      [] v.t = "int"   -> (IF v.neg THEN <<"-">> ELSE <<>>) \o DigitsOf(v.m)
      [] v.t = "float" -> (IF v.neg THEN <<"-">> ELSE <<>>)
                          \o (IF v.m # 0 /\ v.m * Pow10(4) < Pow10(v.e)
                              THEN ExpRepr(v) ELSE FixedRepr(v))

NumChars == DigitChars \cup {"."}

\* .str.extract(r"([0-9.]+)")[0]: the leftmost, longest run of [0-9.]; Null when none
Extract(s) ==
    LET starts == {i \in DOMAIN s : s[i] \in NumChars}
    IN  IF starts = {} THEN Null
        ELSE LET a == CHOOSE i \in starts : \A j \in starts : i <= j
                 b == CHOOSE j \in a..Len(s) :
                        /\ \A k \in a..j : s[k] \in NumChars
                        /\ (j = Len(s) \/ s[j + 1] \notin NumChars)
             IN  Txt(SubSeq(s, a, b))

\* the float a run of [0-9.] denotes: digits with at most one point
ParseFloat(s) ==
    LET dot  == {i \in DOMAIN s : s[i] = "."}
        e    == IF dot = {} THEN 0 ELSE Len(s) - (CHOOSE i \in dot : TRUE)
    IN  Flt(FALSE, ValueOf(Remove(s, ".")), e)

\* pd.to_numeric(errors="coerce") on a cell of the extract column
ToNumericMutZero(c) ==
    IF c.t = "null" THEN Flt(FALSE, 0, 0)
    ELSE IF Cardinality({i \in DOMAIN c.s : c.s[i] = "."}) <= 1
            /\ \E i \in DOMAIN c.s : c.s[i] \in DigitChars
         THEN ParseFloat(c.s)
         ELSE Flt(FALSE, 0, 0)

ToNumeric(c) ==
    IF c.t = "null" THEN Null
    ELSE IF Cardinality({i \in DOMAIN c.s : c.s[i] = "."}) <= 1
            /\ \E i \in DOMAIN c.s : c.s[i] \in DigitChars
         THEN ParseFloat(c.s)
         ELSE Null

\* the whole chain; only enrich_sports_dataset.py removes "$"
CleanNumeric(fn, v) ==
    LET s1 == Remove(AsTypeStr(v), ",")
        s2 == IF fn = "enrich" THEN Remove(s1, "$") ELSE s1
    IN  ToNumeric(Extract(s2))

(***************************************************************************)
(* Cleaning one cell, call by call                                         *)
(***************************************************************************)
MaxTextLen == 3
Alphabet == {"1", "5", ".", ",", "$", "k"}

\* the two examples of the documentation
DollarOrMore == <<"$", "1", ",", "2", "3", "4", " ", "o", "r", " ", "m", "o", "r", "e">>
WithUnit == <<"1", "2", ",", "3", "4", "5", ".", "6", " ", "U", "S", "D">>

RawTexts == SeqsUpTo(Alphabet, MaxTextLen) \cup {DollarOrMore, WithUnit}
RawNumbers ==
    {Flt(FALSE, 0, 0), Flt(FALSE, 5, 0), Flt(FALSE, 25, 1), Flt(FALSE, 120000, 0),
     Flt(FALSE, 1, 4), Flt(FALSE, 1, 5), Flt(FALSE, 25, 6), Flt(TRUE, 5, 0),
     IntV(FALSE, 7), IntV(TRUE, 3)}
RawCells == {Null} \cup {Txt(s) : s \in RawTexts} \cup RawNumbers

CleaningLoops == {"enrich", "sports", "sports_mpg"}

NzInit ==
    /\ nz_fn \in CleaningLoops
    /\ nz_raw \in RawCells
    /\ nz_cell = nz_raw
    /\ nz_pc = "raw"

NzIdle ==
    /\ nz_fn = "enrich"
    /\ nz_raw = Null
    /\ nz_cell = Null
    /\ nz_pc = "idle"

\* .astype(str)
NzAsTypeStr ==
    /\ nz_pc = "raw"
    /\ nz_cell' = Txt(AsTypeStr(nz_cell))
    /\ nz_pc' = "str"
    /\ UNCHANGED <<nz_fn, nz_raw>>
    /\ UNCHANGED notNz

\* .str.replace(",", "", regex=False)
NzReplaceComma ==
    /\ nz_pc = "str"
    /\ nz_cell' = Txt(Remove(nz_cell.s, ","))
    /\ nz_pc' = IF nz_fn = "enrich" THEN "comma" ELSE "stripped"
    /\ UNCHANGED <<nz_fn, nz_raw>>
    /\ UNCHANGED notNz

\* .str.replace("$", "", regex=False), enrich_sports_dataset.py only
NzReplaceDollar ==
    /\ nz_pc = "comma"
    /\ nz_cell' = Txt(Remove(nz_cell.s, "$"))
    /\ nz_pc' = "stripped"
    /\ UNCHANGED <<nz_fn, nz_raw>>
    /\ UNCHANGED notNz

\* .str.extract(r"([0-9.]+)")[0]
NzExtract ==
    /\ nz_pc = "stripped"
    /\ nz_cell' = Extract(nz_cell.s)
    /\ nz_pc' = "extracted"
    /\ UNCHANGED <<nz_fn, nz_raw>>
    /\ UNCHANGED notNz

\* pd.to_numeric(col, errors="coerce")
NzToNumeric ==
    /\ nz_pc = "extracted"
    /\ nz_cell' = ToNumeric(nz_cell)
    /\ nz_pc' = "done"
    /\ UNCHANGED <<nz_fn, nz_raw>>
    /\ UNCHANGED notNz

(***************************************************************************)
(* Tables are sequences of rows.  An EPA row has the columns the pipeline  *)
(* reads: Make, Model, Year, Fuel Type (FuelType), Engine displacement     *)
(* (Displacement), Horsepower (est), 0-60 time (est), Combined Mpg For     *)
(* Fuel Type1 (CombinedMpg), Co2 Tailpipe For Fuel Type1 (Co2).            *)
(***************************************************************************)
EpaRow(make, model, year, fuel, disp, hp, t060, mpg, co2) ==
    [Make |-> make, Model |-> model, Year |-> year, FuelType |-> fuel,
     Displacement |-> disp, HorsepowerEst |-> hp, ZeroSixtyEst |-> t060,
     CombinedMpg |-> mpg, Co2 |-> co2]

\* a drop_duplicates that drops nothing
DropDuplicatesMutNone(df, keys) == df

\* DataFrame.drop_duplicates(subset=..., keep="first"); NaN keys count as equal
\* (keys[i] is the subset key of row i)
DropDuplicates(df, keys) ==
    LET first == {i \in DOMAIN df : \A j \in 1..(i - 1) : keys[j] # keys[i]}
        RECURSIVE Take(_)
        Take(i) == IF i > Len(df) THEN <<>>
                   ELSE (IF i \in first THEN <<df[i]>> ELSE <<>>) \o Take(i + 1)
    IN  Take(1)

(***************************************************************************)
(* Sports cars in the EPA table: the two lists are the same in             *)
(* cleaning.py 348-382 and enrich_sports_dataset.py 20-54.                 *)
(***************************************************************************)
sports_brands_full ==
    {
     "Porsche", "Ferrari", "Lamborghini", "McLaren", "Aston Martin",
     "Bentley", "Bugatti", "Maserati", "Lotus", "Alfa Romeo",
     "Rolls-Royce", "Koenigsegg", "Pagani", "Alpine", "Ariel",
     "Spyker", "TVR", "Morgan", "Caterham", "Pininfarina",
     "Rimac", "W Motors", "Ultima"
    }

performance_keywords ==
    <<
       <<"M", "2">>, <<"M", "3">>, <<"M", "4">>, <<"M", "5">>,
       <<"M", "6">>, <<"M", "8">>, <<"X", "5", " ", "M">>, <<"X", "6", " ", "M">>,
       <<"X", "3", " ", "M">>, <<"X", "4", " ", "M">>, <<"i", "8">>, <<"R", "8">>,
       <<"R", "S", "3">>, <<"R", "S", "4">>, <<"R", "S", "5">>, <<"R", "S", "6">>,
       <<"R", "S", "7">>, <<"T", "T", " ", "R", "S">>, <<"S", "3">>, <<"S", "4">>,
       <<"S", "5">>, <<"S", "6">>, <<"S", "7">>, <<"S", "8">>,
       <<"R", "S", " ", "e", "-", "t", "r", "o", "n", " ", "G", "T">>, <<"A", "M", "G", " ", "G", "T">>, <<"C", "6", "3">>, <<"E", "6", "3">>,
       <<"S", "6", "3">>, <<"G", "6", "3">>, <<"G", "L", "E", "6", "3">>, <<"G", "L", "S", "6", "3">>,
       <<"C", "L", "A", "4", "5">>, <<"A", "4", "5">>, <<"S", "L", "6", "3">>, <<"S", "L", "6", "5">>,
       <<"C", "4", "3">>, <<"E", "4", "3">>, <<"G", "L", "E", "4", "3">>, <<"G", "L", "C", "4", "3">>,
       <<"S", "L", "S", " ", "A", "M", "G">>, <<"L", "C", " ", "5", "0", "0">>, <<"R", "C", " ", "F">>, <<"G", "S", " ", "F">>,
       <<"I", "S", " ", "F">>, <<"F", "-", "T", "y", "p", "e">>, <<"F", "-", "P", "A", "C", "E", " ", "S", "V", "R">>, <<"X", "E", " ", "S", "V">>,
       <<"X", "F", " ", "R">>, <<"C", "T", "S", "-", "V">>, <<"A", "T", "S", "-", "V">>, <<"C", "T", "5", "-", "V">>,
       <<"C", "T", "4", "-", "V">>, <<"B", "l", "a", "c", "k", "w", "i", "n", "g">>, <<"C", "o", "r", "v", "e", "t", "t", "e">>, <<"M", "u", "s", "t", "a", "n", "g", " ", "G", "T">>,
       <<"M", "u", "s", "t", "a", "n", "g", " ", "S", "h", "e", "l", "b", "y">>, <<"M", "u", "s", "t", "a", "n", "g", " ", "M", "a", "c", "h", " ", "1">>, <<"G", "T", "3", "5", "0">>, <<"G", "T", "5", "0", "0">>,
       <<"C", "a", "m", "a", "r", "o", " ", "S", "S">>, <<"C", "a", "m", "a", "r", "o", " ", "Z", "L", "1">>, <<"C", "a", "m", "a", "r", "o", " ", "Z", "2", "8">>, <<"C", "h", "a", "l", "l", "e", "n", "g", "e", "r", " ", "H", "e", "l", "l", "c", "a", "t">>,
       <<"C", "h", "a", "l", "l", "e", "n", "g", "e", "r", " ", "S", "R", "T">>, <<"C", "h", "a", "r", "g", "e", "r", " ", "H", "e", "l", "l", "c", "a", "t">>, <<"C", "h", "a", "r", "g", "e", "r", " ", "S", "R", "T">>, <<"V", "i", "p", "e", "r">>,
       <<"G", "T", "-", "R">>, <<"3", "7", "0", "Z">>, <<"3", "5", "0", "Z">>, <<"4", "0", "0", "Z">>,
       <<"S", "u", "p", "r", "a">>, <<"G", "R", " ", "S", "u", "p", "r", "a">>, <<"8", "6">>, <<"T", "y", "p", "e", " ", "R">>,
       <<"N", "S", "X">>, <<"W", "R", "X", " ", "S", "T", "I">>, <<"B", "R", "Z">>, <<"V", "e", "l", "o", "s", "t", "e", "r", " ", "N">>,
       <<"S", "t", "i", "n", "g", "e", "r", " ", "G", "T">>
    >>

UpperCase == <<"A", "B", "C", "D", "E", "F", "G", "H", "I", "J", "K", "L", "M",
               "N", "O", "P", "Q", "R", "S", "T", "U", "V", "W", "X", "Y", "Z">>
LowerCase == <<"a", "b", "c", "d", "e", "f", "g", "h", "i", "j", "k", "l", "m",
               "n", "o", "p", "q", "r", "s", "t", "u", "v", "w", "x", "y", "z">>
CaseFold == [c \in Range(UpperCase) |->
               LowerCase[CHOOSE i \in DOMAIN UpperCase : UpperCase[i] = c]]
LowerChar(c) == IF c \in DOMAIN CaseFold THEN CaseFold[c] ELSE c
Lower(s) == [i \in DOMAIN s |-> LowerChar(s[i])]

\* re.search(pat, s): pat has no regex operator, so it matches as plain text
Search(pat, s) ==
    \E i \in 1..(Len(s) - Len(pat) + 1) : SubSeq(s, i, i + Len(pat) - 1) = pat

\* Series.str.contains(keyword, case=False, na=False) on one cell
StrContainsMutCase(model, keyword) ==
    IF model.t # "str" THEN FALSE ELSE Search(keyword, model.s)

StrContains(model, keyword) ==
    IF model.t # "str" THEN FALSE ELSE Search(Lower(keyword), Lower(model.s))

\* a filter that lets the sports brands through
DropBrandsMutNone(df) == df

\* df[~df["Make"].isin(sports_brands_full)]
DropBrands(df) == SelectSeq(df, LAMBDA r : r.Make \notin sports_brands_full)

\* the loop below for the keywords lo..hi, split in halves (the rows left by the
\* first half go through the second)
RECURSIVE DropKeywordsIn(_, _, _)
DropKeywordsIn(df, lo, hi) ==
    IF lo > hi THEN df
    ELSE IF lo = hi
    THEN SelectSeq(df, LAMBDA r : ~StrContains(r.Model, performance_keywords[lo]))
    ELSE LET mid  == (lo + hi) \div 2
             left == DropKeywordsIn(df, lo, mid)
         IN  IF left = <<>> THEN left ELSE DropKeywordsIn(left, mid + 1, hi)

\* for keyword in performance_keywords: df = df[~df["Model"].str.contains(..)]
DropKeywords(df, k) == DropKeywordsIn(df, k, Len(performance_keywords))

\* epa[epa["Make"].isin(sports_brands_full)]
TakeBrands(df) == SelectSeq(df, LAMBDA r : r.Make \in sports_brands_full)

\* the matches of the keywords lo..hi, one keyword after the other
RECURSIVE TakeKeywordsIn(_, _, _)
TakeKeywordsIn(df, lo, hi) ==
    IF lo > hi THEN <<>>
    ELSE IF lo = hi
    THEN SelectSeq(df, LAMBDA r : StrContains(r.Model, performance_keywords[lo]))
    ELSE LET mid == (lo + hi) \div 2
         IN  TakeKeywordsIn(df, lo, mid) \o TakeKeywordsIn(df, mid + 1, hi)

\* for keyword in performance_keywords: concat(sports_from_epa, matches of keyword)
TakeKeywords(acc, df, k) == acc \o TakeKeywordsIn(df, k, Len(performance_keywords))

EpaKey(r) == <<r.Make, r.Model, r.Year>>

(***************************************************************************)
(* filter_sports_from_epa(epa_df), cleaning.py 384-399                     *)
(***************************************************************************)
FlIdle ==
    /\ epa_columns = {}
    /\ df_filtered = <<>>
    /\ fl_pc = "idle"

\* df_filtered = epa_df.copy()
FilterCopy ==
    /\ fl_pc = "start"
    /\ df_filtered' = epa
    /\ fl_pc' = "copied"
    /\ UNCHANGED epa_columns
    /\ UNCHANGED notFl

\* if "Make" in df_filtered.columns: drop the sports brands
FilterBrands ==
    /\ fl_pc = "copied"
    /\ df_filtered' = IF "Make" \in epa_columns THEN DropBrands(df_filtered)
                      ELSE df_filtered
    /\ fl_pc' = "brands"
    /\ UNCHANGED epa_columns
    /\ UNCHANGED notFl

\* if "Model" in df_filtered.columns: drop the matches of every keyword; return
FilterKeywords ==
    /\ fl_pc = "brands"
    /\ df_filtered' = IF "Model" \in epa_columns THEN DropKeywords(df_filtered, 1)
                      ELSE df_filtered
    /\ fl_pc' = "returned"
    /\ UNCHANGED epa_columns
    /\ UNCHANGED notFl

(***************************************************************************)
(* enrich_sports_dataset.py.  A sports row has the columns Car Make,       *)
(* Car Model, Year, Engine Size (L), Horsepower, Torque (lb-ft),           *)
(* 0-60 MPH Time (seconds), Price (in USD), MPG.                           *)
(***************************************************************************)
SportsRow(make, model, year, engine, hp, torque, t060, price, mpg) ==
    [CarMake |-> make, CarModel |-> model, Year |-> year, EngineSize |-> engine,
     Horsepower |-> hp, Torque |-> torque, ZeroSixty |-> t060, Price |-> price,
     MPG |-> mpg]

SportsKey(r) == <<r.CarMake, r.CarModel, r.Year>>

numeric_cols_to_convert ==
    <<"EngineSize", "Horsepower", "Torque", "ZeroSixty", "Price", "MPG">>

\* the cleaning chain applied to the columns cols of a row
CleanRow(fn, r, cols) ==
    [c \in DOMAIN r |-> IF c \in cols THEN CleanNumeric(fn, r[c]) ELSE r[c]]

CleanTable(fn, df, cols) == [i \in DOMAIN df |-> CleanRow(fn, df[i], cols)]

\* a mapping that takes the 0-60 time for the torque
MapColumnsMutTorque(df) ==
    [i \in DOMAIN df |->
        SportsRow(df[i].Make, df[i].Model, df[i].Year, df[i].Displacement,
                  df[i].HorsepowerEst, df[i].ZeroSixtyEst, df[i].ZeroSixtyEst, Null,
                  df[i].CombinedMpg)]

\* the DataFrame of lines 72-82
MapColumns(df) ==
    [i \in DOMAIN df |->
        SportsRow(df[i].Make, df[i].Model, df[i].Year, df[i].Displacement,
                  df[i].HorsepowerEst, Null, df[i].ZeroSixtyEst, Null,
                  df[i].CombinedMpg)]

\* (make, model, year) in sports_keys.  Tuples holding NaN are equal only when the
\* NaN is the same object, which the script does not control: nan_same.
KeyInMutNoYear(key, keys, nan_same) ==
    \E k \in keys : k[1] = key[1] /\ k[2] = key[2]

KeyInMutSwapped(key, keys, nan_same) ==
    <<key[1], key[3], key[2]>> \in keys

KeyIn(key, keys, nan_same) ==
    /\ key \in keys
    /\ (key[2] = Null \/ key[3] = Null) => nan_same

\* a merge that adds every EPA-derived row
NewRowsMutAll(mapped, sp, nan_same) == mapped

\* epa_sports_mapped[~epa_sports_mapped.apply(lambda row: key(row) in sports_keys)]
NewRows(mapped, sp, nan_same) ==
    LET sports_keys == {SportsKey(sp[i]) : i \in DOMAIN sp}
    IN  SelectSeq(mapped, LAMBDA r : ~KeyIn(SportsKey(r), sports_keys, nan_same))

\* sports_from_epa = epa[epa["Make"].isin(sports_brands_full)].copy()
ExtractBrands ==
    /\ mg_pc = "loaded"
    /\ sports_from_epa' = TakeBrands(epa)
    /\ mg_pc' = "by_brand"
    /\ UNCHANGED <<sports, epa, epa_sports_mapped, enriched_sports>>
    /\ UNCHANGED notMg

\* the loop over performance_keywords
ExtractKeywords ==
    /\ mg_pc = "by_brand"
    /\ sports_from_epa' = TakeKeywords(sports_from_epa, epa, 1)
    /\ mg_pc' = "by_keyword"
    /\ UNCHANGED <<sports, epa, epa_sports_mapped, enriched_sports>>
    /\ UNCHANGED notMg

\* sports_from_epa.drop_duplicates(subset=["Make", "Model", "Year"])
ExtractDropDuplicates ==
    /\ mg_pc = "by_keyword"
    /\ sports_from_epa' = DropDuplicates(sports_from_epa,
                              [i \in DOMAIN sports_from_epa |-> EpaKey(sports_from_epa[i])])
    /\ mg_pc' = "extracted"
    /\ UNCHANGED <<sports, epa, epa_sports_mapped, enriched_sports>>
    /\ UNCHANGED notMg

MapEpaColumns ==
    /\ mg_pc = "extracted"
    /\ epa_sports_mapped' = MapColumns(sports_from_epa)
    /\ mg_pc' = "mapped"
    /\ UNCHANGED <<sports, epa, sports_from_epa, enriched_sports>>
    /\ UNCHANGED notMg

\* lines 97-113: enriched_sports = concat([sports, epa_sports_new])
Merge ==
    /\ mg_pc = "mapped"
    /\ \E nan_same \in BOOLEAN :
          enriched_sports' = sports \o NewRows(epa_sports_mapped, sports, nan_same)
    /\ mg_pc' = "merged"
    /\ UNCHANGED <<sports, epa, sports_from_epa, epa_sports_mapped>>
    /\ UNCHANGED notMg

\* lines 115-128: every column of numeric_cols_to_convert is in enriched_sports
ConvertNumeric ==
    /\ mg_pc = "merged"
    /\ enriched_sports' =
          CleanTable("enrich", enriched_sports, Range(numeric_cols_to_convert))
    /\ mg_pc' = "converted"
    /\ UNCHANGED <<sports, epa, sports_from_epa, epa_sports_mapped>>
    /\ UNCHANGED notMg

(***************************************************************************)
(* load_and_clean_sports (cleaning.py 89-149) and                          *)
(* load_and_clean_sports_with_mpg (cleaning.py 243-324)                    *)
(***************************************************************************)
SportsColumns ==
    {"CarMake", "CarModel", "Year", "EngineSize", "Horsepower", "Torque",
     "ZeroSixty", "Price", "MPG"}

numeric_cols(fn) ==
    IF fn = "sports"
    THEN <<"EngineSize", "Horsepower", "Torque", "ZeroSixty", "Price">>
    ELSE <<"EngineSize", "Horsepower", "Torque", "ZeroSixty", "Price", "MPG">>

\* a < b of two float cells
NumLess(a, b) ==
    LET x == (IF a.neg THEN -1 ELSE 1) * a.m * Pow10(b.e)
        y == (IF b.neg THEN -1 ELSE 1) * b.m * Pow10(a.e)
    IN  x < y

\* (Year >= year_min) & (Year <= year_max); a comparison with NaN is False
InYearRangeMutOr(year, range) ==
    year.t = "int" /\ (range[1] <= year.m \/ year.m <= range[2])

InYearRange(year, range) ==
    year.t = "int" /\ range[1] <= year.m /\ year.m <= range[2]

Perms(n) == {f \in [1..n -> 1..n] : \A i, j \in 1..n : f[i] = f[j] => i = j}

\* the orders sort_values(by="Price (in USD)", ascending=False, na_position="last")
\* can give: the sort is not stable, rows of equal price come in any order
PriceSortsMutNaFirst(df) ==
    {[i \in DOMAIN df |-> df[f[i]]] : f \in
        {g \in Perms(Len(df)) : \A i, j \in DOMAIN df :
            i < j => \/ df[g[i]].Price.t = "null"
                     \/ /\ df[g[j]].Price.t # "null"
                        /\ ~NumLess(df[g[i]].Price, df[g[j]].Price)}}

PriceSorts(df) ==
    {[i \in DOMAIN df |-> df[f[i]]] : f \in
        {g \in Perms(Len(df)) : \A i, j \in DOMAIN df :
            i < j => \/ df[g[j]].Price.t = "null"
                     \/ /\ df[g[i]].Price.t # "null"
                        /\ ~NumLess(df[g[i]].Price, df[g[j]].Price)}}

LdIdle ==
    /\ ld_fn = "sports_mpg"
    /\ ld_columns = {}
    /\ ld_sports = <<>>
    /\ sports_clean = <<>>
    /\ ld_range = <<0, 0>>
    /\ ld_printed = {}
    /\ ld_pc = "idle"

\* the loop over numeric_cols: a column the table lacks is skipped
LdCleanColumns ==
    /\ ld_pc = "read"
    /\ sports_clean' = CleanTable(ld_fn, ld_sports, Range(numeric_cols(ld_fn)) \cap ld_columns)
    /\ ld_pc' = "cleaned"
    /\ UNCHANGED <<ld_fn, ld_columns, ld_sports, ld_range, ld_printed>>
    /\ UNCHANGED notLd

\* the year mask; load_and_clean_sports returns here
LdYearFilter ==
    /\ ld_pc = "cleaned"
    /\ "Year" \in ld_columns
    /\ sports_clean' = SelectSeq(sports_clean, LAMBDA r : InYearRange(r.Year, ld_range))
    /\ ld_pc' = IF ld_fn = "sports" THEN "returned" ELSE "filtered"
    /\ UNCHANGED <<ld_fn, ld_columns, ld_sports, ld_range, ld_printed>>
    /\ UNCHANGED notLd

\* raise ValueError("Sports dataset is missing 'Year' column.")
LdRaiseNoYear ==
    /\ ld_pc = "cleaned"
    /\ "Year" \notin ld_columns
    /\ ld_pc' = "ValueError"
    /\ UNCHANGED <<ld_fn, ld_columns, ld_sports, sports_clean, ld_range, ld_printed>>
    /\ UNCHANGED notLd

\* sort_values by price, drop_duplicates keep="first", the print, return
LdSortDropDuplicates ==
    /\ ld_pc = "filtered"
    /\ "Price" \in ld_columns
    /\ \E sorted \in PriceSorts(sports_clean) :
          LET kept == DropDuplicates(sorted, [i \in DOMAIN sorted |-> SportsKey(sorted[i])])
          IN  /\ sports_clean' = kept
              /\ ld_printed' = IF Len(sorted) > Len(kept)
                               THEN {<<"duplicate cars removed", Len(sorted) - Len(kept)>>}
                               ELSE {}
    /\ ld_pc' = "returned"
    /\ UNCHANGED <<ld_fn, ld_columns, ld_sports, ld_range>>
    /\ UNCHANGED notLd

\* sort_values(by="Price (in USD)") on a table without the column: KeyError
LdRaiseNoPrice ==
    /\ ld_pc = "filtered"
    /\ "Price" \notin ld_columns
    /\ ld_pc' = "KeyError"
    /\ UNCHANGED <<ld_fn, ld_columns, ld_sports, sports_clean, ld_range, ld_printed>>
    /\ UNCHANGED notLd

(***************************************************************************)
(* The tables the runs start from                                          *)
(***************************************************************************)
year_min_default == 2000
year_max_default == 2025
YearRanges == {<<year_min_default, year_max_default>>, <<2016, 2020>>}

Model911 == Txt(<<"9", "1", "1">>)
ModelM3 == Txt(<<"M", "3">>)
ModelCamry == Txt(<<"C", "a", "m", "r", "y">>)
ModelGRSupra == Txt(<<"G", "R", " ", "S", "u", "p", "r", "a">>)

Price120000 == Txt(<<"$", "1", "2", "0", ",", "0", "0", "0">>)
Price90000 == Txt(<<"9", "0", ",", "0", "0", "0">>)
PriceNA == Txt(<<"N", "/", "A">>)

\* rows of "Sport car price with mpg adjusted.csv" as read_csv gives them
RawSports(make, model, year, price) ==
    SportsRow(make, model, year, Flt(FALSE, 30, 1), IntV(FALSE, 379),
              IntV(FALSE, 331), Flt(FALSE, 42, 1), price, Flt(FALSE, 20, 0))

SportsRows ==
    {RawSports("Porsche", Model911, Yr(2020), p) :
        p \in {Null, Price120000, Price90000, PriceNA}}
    \cup {RawSports("BMW", ModelM3, Yr(2015), p) : p \in {Null, Price120000}}
    \cup {RawSports("Porsche", Model911, Null, Price120000)}

\* rows of "all-vehicles-model-with-hp-0-60.csv"
EpaRows ==
    {EpaRow("Porsche", Model911, Yr(2020), "Premium Gasoline", Flt(FALSE, 30, 1),
            Flt(FALSE, 379, 0), Flt(FALSE, 42, 1), Flt(FALSE, 20, 0), Flt(FALSE, 444, 0)),
     EpaRow("Porsche", Model911, Yr(2020), "Premium Gasoline", Flt(FALSE, 38, 1),
            Flt(FALSE, 443, 0), Flt(FALSE, 35, 1), Flt(FALSE, 18, 0), Flt(FALSE, 493, 0)),
     EpaRow("Porsche", Model911, Null, "Premium Gasoline", Flt(FALSE, 30, 1),
            Flt(FALSE, 379, 0), Flt(FALSE, 42, 1), Flt(FALSE, 20, 0), Flt(FALSE, 444, 0)),
     EpaRow("BMW", ModelM3, Yr(2015), "Premium Gasoline", Flt(FALSE, 30, 1),
            Flt(FALSE, 425, 0), Flt(FALSE, 41, 1), Flt(FALSE, 19, 0), Flt(FALSE, 467, 0)),
     EpaRow("Toyota", ModelGRSupra, Yr(2020), "Premium Gasoline", Null,
            Flt(FALSE, 335, 0), Null, Flt(FALSE, 26, 0), Null),
     EpaRow("Toyota", ModelCamry, Yr(2015), "Regular Gasoline", Flt(FALSE, 25, 1),
            Flt(FALSE, 178, 0), Flt(FALSE, 81, 1), Flt(FALSE, 28, 0), Flt(FALSE, 317, 0))}

MaxRows == 3
\* the pairs of tables of at most MaxRows rows together
TablePairs ==
    UNION {{<<s, e>> : e \in SeqsUpTo(EpaRows, MaxRows - Len(s))} :
             s \in SeqsUpTo(SportsRows, MaxRows)}

MgIdle ==
    /\ sports = <<>>
    /\ epa = <<>>
    /\ sports_from_epa = <<>>
    /\ epa_sports_mapped = <<>>
    /\ enriched_sports = <<>>
    /\ mg_pc = "idle"

\* the two read_csv calls of enrich_sports_dataset.py 13-14
MgInit ==
    /\ \E p \in TablePairs : sports = p[1] /\ epa = p[2]
    /\ sports_from_epa = <<>>
    /\ epa_sports_mapped = <<>>
    /\ enriched_sports = <<>>
    /\ mg_pc = "loaded"

\* to_csv (enrich_sports_dataset.py 140-141), then cleaning.py 432, 442 and 272 read
\* the file back: a float is written with repr and read to the same float, NaN is
\* written as an empty cell and read as NaN
SaveAndLoad ==
    /\ mg_pc = "converted"
    /\ ld_pc = "idle"
    /\ mg_pc' = "saved"
    /\ ld_fn' = "sports_mpg"
    /\ ld_columns' = SportsColumns
    /\ ld_sports' = enriched_sports
    /\ ld_range' \in YearRanges
    /\ ld_pc' = "read"
    /\ UNCHANGED <<sports, epa, sports_from_epa, epa_sports_mapped, enriched_sports,
                   sports_clean, ld_printed>>
    /\ UNCHANGED <<nzVars, flVars, agVars, yrVars, trVars, ixVars, fsVars, frVars, cpVars, cmpVars, dbVars>>

MaxLoadRows == 2
LoadRows ==
    {RawSports("Porsche", Model911, Yr(2020), p) : p \in {Null, Price120000, Price90000}}
    \cup {RawSports("BMW", ModelM3, Yr(2015), Price120000),
          RawSports("Porsche", Model911, Null, Price120000)}
OptionalColumns == {"EngineSize", "Horsepower", "Torque", "ZeroSixty", "Price", "MPG"}

\* a row of a table that has only the columns cols
Project(r, cols) == [c \in DOMAIN r |-> IF c \in cols THEN r[c] ELSE Null]

\* pd.read_csv(path) of a loader called on a table of its own
LdInit ==
    /\ ld_fn \in {"sports", "sports_mpg"}
    /\ \E absent \in {{}} \cup {{c} : c \in OptionalColumns \cup {"Year"}} :
          /\ ld_columns = SportsColumns \ absent
          /\ \E df \in SeqsUpTo(LoadRows, MaxLoadRows) :
                ld_sports = [i \in DOMAIN df |-> Project(df[i], ld_columns)]
    /\ sports_clean = ld_sports
    /\ ld_range \in YearRanges
    /\ ld_printed = {}
    /\ ld_pc = "read"

(***************************************************************************)
(* filter_sports_from_epa and the extraction of enrich_sports_dataset.py   *)
(* on one EPA row                                                          *)
(***************************************************************************)
MaxModelLen == 3
ModelAlphabet == {"M", "m", "3", "8", "i"}
ClassMakes == {"Porsche", "porsche", "BMW"}
ClassModels ==
    {Null} \cup {Txt(s) : s \in SeqsUpTo(ModelAlphabet, MaxModelLen)}
    \cup {Model911, ModelCamry, ModelGRSupra}
ClassRows ==
    {EpaRow(mk, md, Yr(2020), "Premium Gasoline", Flt(FALSE, 30, 1), Flt(FALSE, 379, 0),
            Flt(FALSE, 42, 1), Flt(FALSE, 20, 0), Flt(FALSE, 444, 0)) :
        mk \in ClassMakes, md \in ClassModels}

EpaColumns ==
    {"Make", "Model", "Year", "FuelType", "Displacement", "HorsepowerEst",
     "ZeroSixtyEst", "CombinedMpg", "Co2"}

\* the script reads the raw file, which has every column; load_and_clean_epa_with_hp
\* passes filter_sports_from_epa the columns the file has
ClassInit ==
    /\ \E r \in ClassRows : epa = <<r>>
    /\ sports = <<>>
    /\ sports_from_epa = <<>>
    /\ epa_sports_mapped = <<>>
    /\ enriched_sports = <<>>
    /\ mg_pc = "loaded"
    /\ \E absent \in {{}, {"Make"}, {"Model"}} : epa_columns = EpaColumns \ absent
    /\ df_filtered = <<>>
    /\ fl_pc = "start"

MaxSplitRows == 3

\* rows of the EPA file for the split: two trims of one sports-brand car, a car
\* taken for a keyword, a mainstream car
SplitRows == {r \in EpaRows : r.Year # Null /\ r.Model # ModelGRSupra}

\* the same file goes through filter_sports_from_epa and through the extraction
SplitInit ==
    /\ epa \in SeqsUpTo(SplitRows, MaxSplitRows)
    /\ sports = <<>>
    /\ sports_from_epa = <<>>
    /\ epa_sports_mapped = <<>>
    /\ enriched_sports = <<>>
    /\ mg_pc = "loaded"
    /\ \E absent \in {{}, {"Make"}, {"Model"}} : epa_columns = EpaColumns \ absent
    /\ df_filtered = <<>>
    /\ fl_pc = "start"

(***************************************************************************)
(* compute_epa_yearly_aggregates (plots_epa.py 8-58) and                   *)
(* compute_sports_yearly_aggregates (plots_sports.py 8-60).  A mean is the *)
(* fraction num/den in lowest terms, or Null (NaN).                        *)
(***************************************************************************)
RECURSIVE Gcd(_, _)
Gcd(a, b) == IF b = 0 THEN a ELSE Gcd(b, a % b)

Rat(num, den) ==
    LET g == Gcd(num, den)
    IN  [t |-> "rat", num |-> num \div g, den |-> den \div g]

RECURSIVE SumAt(_, _)
\* the sum of the floats of a sequence, in units of 10^-e
SumAt(s, e) == IF s = <<>> THEN 0
               ELSE Head(s).m * Pow10(e - Head(s).e) + SumAt(Tail(s), e)

\* a mean that counts NaN as a value 0
MeanMutCountNulls(cells) ==
    LET vals == SelectSeq(cells, LAMBDA v : v.t = "float")
        e    == IF vals = <<>> THEN 0
                ELSE CHOOSE x \in {vals[i].e : i \in DOMAIN vals} :
                        \A i \in DOMAIN vals : vals[i].e <= x
    IN  IF cells = <<>> THEN Null
        ELSE Rat(SumAt(vals, e), Len(cells) * Pow10(e))

\* Series.mean(): NaN is skipped; NaN when nothing is left
Mean(cells) ==
    LET vals == SelectSeq(cells, LAMBDA v : v.t = "float")
        e    == IF vals = <<>> THEN 0
                ELSE CHOOSE x \in {vals[i].e : i \in DOMAIN vals} :
                        \A i \in DOMAIN vals : vals[i].e <= x
    IN  IF vals = <<>> THEN Null
        ELSE Rat(SumAt(vals, e), Len(vals) * Pow10(e))

category_column(fn) == IF fn = "epa" THEN "FuelType" ELSE "CarMake"

metric_columns(fn) ==
    CASE fn \in {"epa", "epa_yearly"} -> <<"CombinedMpg", "Co2", "Displacement">>
      [] fn = "sports" -> <<"Horsepower", "EngineSize", "Price", "ZeroSixty">>
      [] fn = "sports_yearly" ->
            <<"EngineSize", "Horsepower", "Torque", "ZeroSixty", "Price">>

\* a Python list argument, or None
NoneArg == [t |-> "none"]
ListArg(s) == [t |-> "list", items |-> s]

\* a mask that leaves the category out
MaskMutYearOnly(fn, columns, args, r) ==
    InYearRange(r.Year, <<args.year_min, args.year_max>>)

\* mask of lines 36-41: the year range, and the category when a non-empty list is
\* given and the table has the column
Mask(fn, columns, args, r) ==
    /\ InYearRange(r.Year, <<args.year_min, args.year_max>>)
    /\ (args.filter.t = "list" /\ Len(args.filter.items) > 0
        /\ category_column(fn) \in columns)
       => r[category_column(fn)] \in Range(args.filter.items)

RECURSIVE AscendingMutReversed(_)
\* the elements of a set of integers in decreasing order
AscendingMutReversed(S) ==
    IF S = {} THEN <<>>
    ELSE LET most == CHOOSE x \in S : \A y \in S : y <= x
         IN  <<most>> \o AscendingMutReversed(S \ {most})

RECURSIVE Ascending(_)
\* the elements of a set of integers in increasing order
Ascending(S) ==
    IF S = {} THEN <<>>
    ELSE LET least == CHOOSE x \in S : \A y \in S : x <= y
         IN  <<least>> \o Ascending(S \ {least})

\* a group-by that gives every year from the first to the last a row
GroupMeanMutDense(fn, df) ==
    LET with  == {df[i].Year.m : i \in {j \in DOMAIN df : df[j].Year.t = "int"}}
        years == Ascending({y \in 2000..2030 : \E a, b \in with : a - 1 <= y /\ y <= b + 1})
        cols  == metric_columns(fn)
    IN  [k \in DOMAIN years |->
            LET rows == SelectSeq(df, LAMBDA r : r.Year = Yr(years[k]))
            IN  [Year |-> years[k],
                 mean |-> [c \in Range(cols) |-> Mean([i \in DOMAIN rows |-> rows[i][c]])]]]

\* groupby("Year", as_index=False)[metrics].mean().sort_values("Year")
GroupMean(fn, df) ==
    LET years == Ascending({df[i].Year.m : i \in {j \in DOMAIN df : df[j].Year.t = "int"}})
        cols  == metric_columns(fn)
    IN  [k \in DOMAIN years |->
            LET rows == SelectSeq(df, LAMBDA r : r.Year = Yr(years[k]))
            IN  [Year |-> years[k],
                 mean |-> [c \in Range(cols) |-> Mean([i \in DOMAIN rows |-> rows[i][c]])]]]

MaxAggRows == 3
AggYears == 2014..2015
FirstYear == CHOOSE y \in AggYears : \A z \in AggYears : y <= z

AggEpa(year, fuel, mpg) ==
    EpaRow("Toyota", ModelCamry, year, fuel, Flt(FALSE, 25, 1), Flt(FALSE, 178, 0),
           Flt(FALSE, 81, 1), mpg, Flt(FALSE, 317, 0))
AggSports(year, make, hp) ==
    SportsRow(make, Model911, year, Flt(FALSE, 30, 1), hp, Flt(FALSE, 331, 0),
              Flt(FALSE, 42, 1), Flt(FALSE, 120000, 0), Flt(FALSE, 20, 0))

\* rows of a cleaned table: (year, category, value of the first metric)
AggCases ==
    {<<Yr(FirstYear), 1, Null>>, <<Yr(FirstYear), 1, Flt(FALSE, 10, 0)>>,
     <<Yr(FirstYear), 1, Flt(FALSE, 20, 0)>>, <<Yr(FirstYear), 2, Flt(FALSE, 20, 0)>>,
     <<Null, 1, Flt(FALSE, 10, 0)>>}
    \cup {<<Yr(y), 1, Flt(FALSE, 10, 0)>> : y \in AggYears}
Categories(fn) == IF fn = "epa" THEN <<"Regular Gasoline", "Electricity">>
                  ELSE <<"Porsche", "BMW">>
AggRow(fn, c) == IF fn = "epa" THEN AggEpa(c[1], Categories(fn)[c[2]], c[3])
                 ELSE AggSports(c[1], Categories(fn)[c[2]], c[3])

AggFilters(fn) == {NoneArg, ListArg(<<>>), ListArg(<<Categories(fn)[1]>>)}

\* no exception
NoError == [t |-> "none"]
\* the exception of a type, and the columns its message names
Error(type, names) == [t |-> type, names |-> names]

\* the columns a yearly aggregator reads whatever its arguments
AggRequired(fn) == {"Year"} \cup Range(metric_columns(fn))

\* the columns a table passed in may lack: the category column alone (the table
\* is then aggregated), or columns the aggregator reads
AggAbsent(fn) ==
    {{}, {category_column(fn)}} \cup (SUBSET AggRequired(fn) \ {{}})

\* the tables tried with a set of absent columns
AggTables(fn, absent) ==
    IF absent \cap AggRequired(fn) = {} THEN SeqsUpTo(AggCases, MaxAggRows)
    ELSE SeqsUpTo(AggCases, 1)

AgIdle ==
    /\ ag_fn = "epa"
    /\ ag_df = <<>>
    /\ ag_columns = {}
    /\ ag_args = <<>>
    /\ df_sub = <<>>
    /\ grouped = <<>>
    /\ ag_error = NoError
    /\ ag_pc = "idle"

AgInit ==
    /\ ag_fn \in {"epa", "sports"}
    /\ \E absent \in AggAbsent(ag_fn) :
          /\ ag_columns = (IF ag_fn = "epa" THEN EpaColumns ELSE SportsColumns) \ absent
          /\ \E cs \in AggTables(ag_fn, absent) :
                ag_df = [i \in DOMAIN cs |-> Project(AggRow(ag_fn, cs[i]), ag_columns)]
    /\ \E lo, hi \in AggYears, f \in AggFilters(ag_fn) :
          ag_args = [year_min |-> lo, year_max |-> hi, filter |-> f]
    /\ df_sub = <<>>
    /\ grouped = <<>>
    /\ ag_error = NoError
    /\ ag_pc = "called"

\* lines 35-43: df_sub = df.loc[mask].copy()
AgMask ==
    /\ ag_pc = "called"
    /\ "Year" \in ag_columns
    /\ df_sub' = SelectSeq(ag_df, LAMBDA r : Mask(ag_fn, ag_columns, ag_args, r))
    /\ ag_pc' = "masked"
    /\ UNCHANGED <<ag_fn, ag_df, ag_columns, ag_args, grouped, ag_error>>
    /\ UNCHANGED notAg

\* line 36: df["Year"] of a table without the column raises KeyError('Year')
AgRaiseNoYear ==
    /\ ag_pc = "called"
    /\ "Year" \notin ag_columns
    /\ ag_error' = Error("KeyError", {"Year"})
    /\ ag_pc' = "KeyError"
    /\ UNCHANGED <<ag_fn, ag_df, ag_columns, ag_args, df_sub, grouped>>
    /\ UNCHANGED notAg

\* lines 45-58: the group-by, the means, the sort, the return
AgGroup ==
    /\ ag_pc = "masked"
    /\ Range(metric_columns(ag_fn)) \subseteq ag_columns
    /\ grouped' = GroupMean(ag_fn, df_sub)
    /\ ag_pc' = "returned"
    /\ UNCHANGED <<ag_fn, ag_df, ag_columns, ag_args, df_sub, ag_error>>
    /\ UNCHANGED notAg

\* lines 46-53: the selection of columns the group-by has not raises
\* KeyError("Columns not found: ...") with the columns it lacks
AgRaiseColumnsNotFound ==
    /\ ag_pc = "masked"
    /\ ~(Range(metric_columns(ag_fn)) \subseteq ag_columns)
    /\ ag_error' = Error("KeyError", Range(metric_columns(ag_fn)) \ ag_columns)
    /\ ag_pc' = "KeyError"
    /\ UNCHANGED <<ag_fn, ag_df, ag_columns, ag_args, df_sub, grouped>>
    /\ UNCHANGED notAg

(***************************************************************************)
(* compute_epa_yearly (aggregates.py 17-60) and compute_sports_yearly      *)
(* (aggregates.py 63-112): the required columns are checked, then the      *)
(* whole table is grouped by year.                                         *)
(***************************************************************************)
required_cols(fn) == <<"Year">> \o metric_columns(fn)

\* missing = [c for c in required_cols if c not in df.columns]
missing(fn, columns) == SelectSeq(required_cols(fn), LAMBDA c : c \notin columns)

YrIdle ==
    /\ yr_fn = "epa_yearly"
    /\ yr_df = <<>>
    /\ yr_columns = {}
    /\ yr_out = <<>>
    /\ yr_error = NoError
    /\ yr_pc = "idle"

YrInit ==
    /\ yr_fn \in {"epa_yearly", "sports_yearly"}
    /\ \E absent \in SUBSET AggRequired(yr_fn) :
          /\ yr_columns = (IF yr_fn = "epa_yearly" THEN EpaColumns ELSE SportsColumns)
                             \ absent
          /\ \E cs \in AggTables(yr_fn, absent) :
                yr_df = [i \in DOMAIN cs |->
                           Project(AggRow(IF yr_fn = "epa_yearly" THEN "epa" ELSE "sports",
                                          cs[i]), yr_columns)]
    /\ yr_out = <<>>
    /\ yr_error = NoError
    /\ yr_pc = "called"

\* lines 43-45, 93-95: raise ValueError(f"... missing required columns: {missing}")
YrRaiseMissing ==
    /\ yr_pc = "called"
    /\ missing(yr_fn, yr_columns) # <<>>
    /\ yr_error' = Error("ValueError", Range(missing(yr_fn, yr_columns)))
    /\ yr_pc' = "ValueError"
    /\ UNCHANGED <<yr_fn, yr_df, yr_columns, yr_out>>
    /\ UNCHANGED notYr

\* lines 47-60, 97-112: groupby("Year")[metrics].mean().reset_index().sort_values("Year")
YrGroup ==
    /\ yr_pc = "called"
    /\ missing(yr_fn, yr_columns) = <<>>
    /\ yr_out' = GroupMean(yr_fn, yr_df)
    /\ yr_pc' = "returned"
    /\ UNCHANGED <<yr_fn, yr_df, yr_columns, yr_error>>
    /\ UNCHANGED notYr

(***************************************************************************)
(* Base-year normalization of the trend figures: make_epa_trend_figure     *)
(* (plots_epa.py 93-110), make_sports_trend_figure (plots_sports.py        *)
(* 98-115), and the dashboard's update_sports_trendlines_chart (448-464)   *)
(* and update_epa_trendlines_chart (560-580).  The four loops are the same *)
(* code on the rows of a yearly aggregator.                                *)
(***************************************************************************)
\* the columns the loop goes through
normalized_columns(fn) ==
    IF fn \in {"epa", "dashboard_epa"} THEN <<"CombinedMpg", "Co2", "Displacement">>
    ELSE <<"Horsepower", "EngineSize", "Price">>

aggregated_columns(fn) ==
    metric_columns(IF fn \in {"epa", "dashboard_epa"} THEN "epa" ELSE "sports")

\* plot_df[col].dropna(): the values of a column that are not NaN, in row order
DropNa(df, col) ==
    LET cells == [k \in DOMAIN df |-> df[k].mean[col]]
    IN  SelectSeq(cells, LAMBDA v : v # Null)

\* (v / first_valid) without the factor
ScaleMutNoHundred(v, first_valid) ==
    IF v = Null THEN Null
    ELSE Rat(v.num * first_valid.den, v.den * first_valid.num)

\* (v / first_valid) * 100.0; NaN stays NaN
Scale(v, first_valid) ==
    IF v = Null THEN Null
    ELSE Rat(v.num * first_valid.den * 100, v.den * first_valid.num)

\* the body of the loop for one column: the column as the loop leaves it
NormalizeColumn(df, col) ==
    LET non_null == DropNa(df, col)
    IN  IF Len(non_null) > 0 /\ non_null[1].num # 0
        THEN [k \in DOMAIN df |-> Scale(df[k].mean[col], non_null[1])]
        ELSE [k \in DOMAIN df |-> df[k].mean[col]]

\* for col in [...]: if col in plot_df.columns: ...
Normalize(fn, df) ==
    LET cols == Range(normalized_columns(fn))
    IN  [k \in DOMAIN df |->
            [df[k] EXCEPT !.mean = [c \in DOMAIN df[k].mean |->
                IF c \in cols THEN NormalizeColumn(df, c)[k] ELSE df[k].mean[c]]]]

MaxSeriesLen == 3

\* yearly means of the first metric and of the second
TrendValues == {Null, Rat(0, 1), Rat(40, 1), Rat(44, 1), Rat(48, 1)}
TrendSecond == {Null, Rat(40, 1)}

\* the rows a yearly aggregator can return: one per year, years increasing
YearlyRows(fn) ==
    LET cols == aggregated_columns(fn)
    IN  {[k \in DOMAIN s |->
            [Year |-> FirstYear + k - 1,
             mean |-> [c \in Range(cols) |->
                         IF c = cols[1] THEN s[k][1]
                         ELSE IF c = cols[2] THEN s[k][2] ELSE Rat(5, 2)]]] :
         s \in SeqsUpTo(TrendValues \X TrendSecond, MaxSeriesLen)}

TrIdle ==
    /\ tr_fn = "epa"
    /\ tr_normalize = FALSE
    /\ yearly = <<>>
    /\ plot_df = <<>>
    /\ tr_pc = "idle"

\* yearly = compute_..._yearly_aggregates(...)
TrInit ==
    /\ tr_fn \in {"epa", "sports", "dashboard_epa", "dashboard_sports"}
    /\ tr_normalize \in BOOLEAN
    /\ yearly \in YearlyRows(tr_fn)
    /\ plot_df = <<>>
    /\ tr_pc = "aggregated"

\* plot_df = yearly.copy()
TrCopy ==
    /\ tr_pc = "aggregated"
    /\ plot_df' = yearly
    /\ tr_pc' = "copied"
    /\ UNCHANGED <<tr_fn, tr_normalize, yearly>>
    /\ UNCHANGED notTr

\* if normalize: the loop over the columns
TrNormalize ==
    /\ tr_pc = "copied"
    /\ tr_normalize
    /\ plot_df' = Normalize(tr_fn, plot_df)
    /\ tr_pc' = "plotting"
    /\ UNCHANGED <<tr_fn, tr_normalize, yearly>>
    /\ UNCHANGED notTr

\* normalize is False: the loop is skipped
TrPlain ==
    /\ tr_pc = "copied"
    /\ ~tr_normalize
    /\ tr_pc' = "plotting"
    /\ UNCHANGED <<tr_fn, tr_normalize, yearly, plot_df>>
    /\ UNCHANGED notTr

(***************************************************************************)
(* make_indices_chart (plots_act3.py 63-181): the six index series, built  *)
(* one after the other by the same block of code.                          *)
(***************************************************************************)
gas_types ==
    {"Regular", "Premium", "Midgrade", "Gasoline or E85", "Premium or E85", "Diesel",
     "Gasoline or natural gas", "CNG"}
electric_types ==
    {"Electricity", "Regular Gas and Electricity", "Premium Gas or Electricity",
     "Premium and Electricity", "Regular Gas or Electricity"}

\* the index series in the order the code builds them
SeriesNames == <<"gas_perf", "sports_perf", "ev_perf", "gas_eff", "sports_eff", "ev_eff">>

\* the column a series is the yearly mean of
SeriesColumn(name) ==
    CASE name \in {"gas_perf", "ev_perf"} -> "HorsepowerEst"
      [] name = "sports_perf" -> "Horsepower"
      [] name \in {"gas_eff", "ev_eff"} -> "CombinedMpg"
      [] name = "sports_eff" -> "MPG"

\* df.groupby("Year", as_index=False)[col].mean()
GroupMeanOf(df, col) ==
    LET years == Ascending({df[i].Year.m : i \in {j \in DOMAIN df : df[j].Year.t = "int"}})
    IN  [k \in DOMAIN years |->
            LET rows == SelectSeq(df, LAMBDA r : r.Year = Yr(years[k]))
            IN  [Year |-> years[k], value |-> Mean([i \in DOMAIN rows |-> rows[i][col]])]]

\* an index that takes as base the first mean that is not NaN
IndexSeriesMutFirstValid(s) ==
    LET valid == SelectSeq(s, LAMBDA r : r.value # Null)
    IN  IF valid # <<>> /\ valid[1].value.num > 0
        THEN [k \in DOMAIN s |-> [Year |-> s[k].Year, index |-> Scale(s[k].value, valid[1].value)]]
        ELSE [k \in DOMAIN s |-> [Year |-> s[k].Year, index |-> Rat(100, 1)]]

\* lines 121-128, for a series with rows: base = iloc[0]; 100 * value / base where
\* base > 0 (False of NaN), else 100 in every row; then the two columns are kept
IndexSeries(s) ==
    LET base == s[1].value
    IN  IF base # Null /\ base.num > 0
        THEN [k \in DOMAIN s |-> [Year |-> s[k].Year, index |-> Scale(s[k].value, base)]]
        ELSE [k \in DOMAIN s |-> [Year |-> s[k].Year, index |-> Rat(100, 1)]]

MaxIndexRows == 3
MaxIndexEpaRows == 2

\* rows of the two tables: (year, horsepower, mpg)
IxSportsCases ==
    {<<Yr(FirstYear), Null, Flt(FALSE, 20, 0)>>,
     <<Yr(FirstYear), Flt(FALSE, 0, 0), Flt(FALSE, 20, 0)>>,
     <<Yr(FirstYear + 1), Flt(FALSE, 100, 0), Flt(FALSE, 20, 0)>>,
     <<Yr(FirstYear + 2), Flt(FALSE, 200, 0), Flt(FALSE, 30, 0)>>}
IxEpaCases ==
    {<<Yr(FirstYear), Flt(FALSE, 100, 0), Flt(FALSE, 20, 0)>>,
     <<Yr(FirstYear + 1), Flt(FALSE, 200, 0), Flt(FALSE, 30, 0)>>}
IxSports(c) ==
    SportsRow("Porsche", Model911, c[1], Flt(FALSE, 30, 1), c[2], Flt(FALSE, 331, 0),
              Flt(FALSE, 42, 1), Flt(FALSE, 120000, 0), c[3])
IxEpa(c, fuel) ==
    EpaRow("Toyota", ModelCamry, c[1], fuel, Flt(FALSE, 25, 1), c[2],
           Flt(FALSE, 81, 1), c[3], Flt(FALSE, 317, 0))
IxRanges == {<<FirstYear, FirstYear + 2>>, <<FirstYear + 1, FirstYear + 2>>}

NoSeries == [n \in Range(SeriesNames) |-> <<>>]

IxIdle ==
    /\ ix_sports = <<>>
    /\ ix_epa = <<>>
    /\ ix_range = <<>>
    /\ sports_filtered = <<>>
    /\ epa_filtered = <<>>
    /\ epa_gas = <<>>
    /\ epa_ev = <<>>
    /\ ix_yearly = <<>>
    /\ ix_index = <<>>
    /\ ix_pc = "idle"

IxInit ==
    /\ \E cs \in SeqsUpTo(IxSportsCases, MaxIndexRows) :
          ix_sports = [i \in DOMAIN cs |-> IxSports(cs[i])]
    /\ \E cs \in SeqsUpTo(IxEpaCases \X {"Regular", "Electricity"}, MaxIndexEpaRows) :
          ix_epa = [i \in DOMAIN cs |-> IxEpa(cs[i][1], cs[i][2])]
    /\ ix_range \in IxRanges
    /\ sports_filtered = <<>>
    /\ epa_filtered = <<>>
    /\ epa_gas = <<>>
    /\ epa_ev = <<>>
    /\ ix_yearly = NoSeries
    /\ ix_index = NoSeries
    /\ ix_pc = "called"

\* lines 100-101
IxFilterYears ==
    /\ ix_pc = "called"
    /\ sports_filtered' = SelectSeq(ix_sports, LAMBDA r : InYearRange(r.Year, ix_range))
    /\ epa_filtered' = SelectSeq(ix_epa, LAMBDA r : InYearRange(r.Year, ix_range))
    /\ ix_pc' = "filtered"
    /\ UNCHANGED <<ix_sports, ix_epa, ix_range, epa_gas, epa_ev, ix_yearly, ix_index>>
    /\ UNCHANGED notIx

\* lines 104-112
IxSplit ==
    /\ ix_pc = "filtered"
    /\ epa_gas' = SelectSeq(epa_filtered, LAMBDA r : r.FuelType \in gas_types)
    /\ epa_ev' = SelectSeq(epa_filtered, LAMBDA r : r.FuelType \in electric_types)
    /\ ix_pc' = "split"
    /\ UNCHANGED <<ix_sports, ix_epa, ix_range, sports_filtered, epa_filtered,
                   ix_yearly, ix_index>>
    /\ UNCHANGED notIx

\* the table a series is computed from
SeriesTable(name) ==
    CASE name \in {"gas_perf", "gas_eff"} -> epa_gas
      [] name \in {"sports_perf", "sports_eff"} -> sports_filtered
      [] name \in {"ev_perf", "ev_eff"} -> epa_ev

\* lines 116-118: the three yearly means of horsepower
IxPerfYearly ==
    /\ ix_pc = "split"
    /\ ix_yearly' = [n \in Range(SeriesNames) |->
                        IF n \in {"gas_perf", "sports_perf", "ev_perf"}
                        THEN GroupMeanOf(SeriesTable(n), SeriesColumn(n))
                        ELSE ix_yearly[n]]
    /\ ix_pc' = "gas_perf"
    /\ UNCHANGED <<ix_sports, ix_epa, ix_range, sports_filtered, epa_filtered,
                   epa_gas, epa_ev, ix_index>>
    /\ UNCHANGED notIx

\* lines 151-153: the three yearly means of mpg
IxEffYearly ==
    /\ ix_pc = "perf_done"
    /\ ix_yearly' = [n \in Range(SeriesNames) |->
                        IF n \in {"gas_eff", "sports_eff", "ev_eff"}
                        THEN GroupMeanOf(SeriesTable(n), SeriesColumn(n))
                        ELSE ix_yearly[n]]
    /\ ix_pc' = "gas_eff"
    /\ UNCHANGED <<ix_sports, ix_epa, ix_range, sports_filtered, epa_filtered,
                   epa_gas, epa_ev, ix_index>>
    /\ UNCHANGED notIx

\* where the code goes after the block of a series
AfterSeries(name) ==
    CASE name = "gas_perf" -> "sports_perf"
      [] name = "sports_perf" -> "ev_perf"
      [] name = "ev_perf" -> "perf_done"
      [] name = "gas_eff" -> "sports_eff"
      [] name = "sports_eff" -> "ev_eff"
      [] name = "ev_eff" -> "plotting"

\* one block of lines 121-146, 156-181 on a series that has rows
IxIndex ==
    /\ ix_pc \in Range(SeriesNames)
    /\ Len(ix_yearly[ix_pc]) > 0
    /\ ix_index' = [ix_index EXCEPT ![ix_pc] = IndexSeries(ix_yearly[ix_pc])]
    /\ ix_pc' = AfterSeries(ix_pc)
    /\ UNCHANGED <<ix_sports, ix_epa, ix_range, sports_filtered, epa_filtered,
                   epa_gas, epa_ev, ix_yearly>>
    /\ UNCHANGED notIx

\* the same block on a series without rows: the index column is never made, and
\* the selection [["Year", "Performance_Index"]] (128, 137, 146, 163, 172, 181)
\* raises KeyError
IxRaiseKeyError ==
    /\ ix_pc \in Range(SeriesNames)
    /\ Len(ix_yearly[ix_pc]) = 0
    /\ ix_pc' = "KeyError"
    /\ UNCHANGED <<ix_sports, ix_epa, ix_range, sports_filtered, epa_filtered,
                   epa_gas, epa_ev, ix_yearly, ix_index>>
    /\ UNCHANGED notIx

(***************************************************************************)
(* The fuel-share count table: compute_fuel_share_by_year (plots_epa.py    *)
(* 170-224) and the pivot of the dashboard's update_fuel_share_chart       *)
(* (dashboard_app.py 948-1024), which maps the fuel types to Gas, Electric *)
(* and Other first.                                                        *)
(***************************************************************************)
\* the fuel type of a row that has none (NaN)
NoFuelType == "NaN"

\* map_fuel_type of update_fuel_share_chart
map_fuel_type(ft) ==
    IF ft \in gas_types THEN "Gas"
    ELSE IF ft \in electric_types THEN "Electric" ELSE "Other"

\* selected_categories
selected_categories(args) ==
    (IF args.chk_gas THEN <<"Gas">> ELSE <<>>)
       \o (IF args.chk_electric THEN <<"Electric">> ELSE <<>>)

\* the rows with the category they are counted under
WithCategory(fn, df) ==
    [i \in DOMAIN df |->
        [Year |-> df[i].Year,
         Category |-> IF fn = "update_fuel_share_chart"
                      THEN map_fuel_type(df[i].FuelType) ELSE df[i].FuelType]]

\* the rows kept: the year range, and the filter of the function
FuelMask(fn, columns, args, r) ==
    /\ InYearRange(r.Year, <<args.year_min, args.year_max>>)
    /\ IF fn = "update_fuel_share_chart"
       THEN selected_categories(args) # <<>>
               => map_fuel_type(r.FuelType) \in Range(selected_categories(args))
       ELSE (args.filter.t = "list" /\ Len(args.filter.items) > 0
             /\ "FuelType" \in columns)
               => r.FuelType \in Range(args.filter.items)

\* a count that also lists, with 0, the categories in a year that has no row
GroupSizeMutEveryYear(rows) ==
    LET seen == {j \in DOMAIN rows : rows[j].Category # NoFuelType}
    IN  {[Year |-> rows[i].Year.m, Category |-> rows[i].Category,
          count |-> Cardinality({j \in DOMAIN rows : rows[j] = rows[i]})] : i \in seen}
        \cup {[Year |-> y, Category |-> rows[i].Category, count |-> 0] :
                 y \in AggYears \ {rows[j].Year.m : j \in seen}, i \in seen}

\* groupby(["Year", category], as_index=False).size(): one row for every pair that
\* occurs, with the number of its rows (the order of the rows is left out); the
\* rows with NaN in a key are dropped
GroupSize(rows) ==
    {[Year |-> rows[i].Year.m, Category |-> rows[i].Category,
      count |-> Cardinality({j \in DOMAIN rows : rows[j] = rows[i]})] :
        i \in {j \in DOMAIN rows : rows[j].Category # NoFuelType}}

\* pivot(index="Year", columns=category, values="count"): a cell is NaN where
\* the pair has no row
Pivot(counts) ==
    LET years == Ascending({c.Year : c \in counts})
        cats  == {c.Category : c \in counts}
    IN  [k \in DOMAIN years |->
            [Year |-> years[k],
             count |-> [cat \in cats |->
                 IF \E c \in counts : c.Year = years[k] /\ c.Category = cat
                 THEN Rat((CHOOSE c \in counts :
                              c.Year = years[k] /\ c.Category = cat).count, 1)
                 ELSE Null]]]

\* a fill that leaves NaN where it is
FillNaMutKeep(wide) == wide

\* fillna(0)
FillNa(wide) ==
    [k \in DOMAIN wide |->
        [wide[k] EXCEPT !.count = [cat \in DOMAIN wide[k].count |->
            IF wide[k].count[cat] = Null THEN Rat(0, 1) ELSE wide[k].count[cat]]]]

MaxShareRows == 3

\* rows of the EPA table: (year, fuel type)
FsCases ==
    ({Yr(y) : y \in AggYears} \X {"Regular", "Electricity", "Hydrogen"})
       \cup {<<Null, "Regular">>, <<Yr(FirstYear), NoFuelType>>}
FsRow(c) ==
    EpaRow("Toyota", ModelCamry, c[1], c[2], Flt(FALSE, 25, 1), Flt(FALSE, 178, 0),
           Flt(FALSE, 81, 1), Flt(FALSE, 28, 0), Flt(FALSE, 317, 0))
FsRanges == {<<FirstYear, FirstYear + 1>>, <<FirstYear, FirstYear>>}
FsFilters == {NoneArg, ListArg(<<>>), ListArg(<<"Electricity">>)}

FsIdle ==
    /\ fs_fn = "compute_fuel_share_by_year"
    /\ fs_df = <<>>
    /\ fs_columns = {}
    /\ fs_args = <<>>
    /\ fs_sub = <<>>
    /\ fuel_counts = {}
    /\ fuel_wide = <<>>
    /\ fs_pc = "idle"

FsInit ==
    /\ fs_fn \in {"compute_fuel_share_by_year", "update_fuel_share_chart"}
    /\ \E absent \in {{}, {"FuelType"}} :
          /\ absent # {} => fs_fn = "compute_fuel_share_by_year"
          /\ fs_columns = EpaColumns \ absent
          /\ \E cs \in SeqsUpTo(FsCases, IF absent = {} THEN MaxShareRows ELSE 1) :
                fs_df = [i \in DOMAIN cs |-> FsRow(cs[i])]
    /\ \E range \in FsRanges, p \in BOOLEAN :
          \/ /\ fs_fn = "compute_fuel_share_by_year"
             /\ \E f \in FsFilters :
                   fs_args = [year_min |-> range[1], year_max |-> range[2], filter |-> f,
                              chk_gas |-> FALSE, chk_electric |-> FALSE,
                              use_percent |-> p]
          \/ /\ fs_fn = "update_fuel_share_chart"
             /\ \E g, e \in BOOLEAN :
                   fs_args = [year_min |-> range[1], year_max |-> range[2],
                              filter |-> NoneArg, chk_gas |-> g, chk_electric |-> e,
                              use_percent |-> p]
    /\ fs_sub = <<>>
    /\ fuel_counts = {}
    /\ fuel_wide = <<>>
    /\ fs_pc = "called"

\* plots_epa.py 195-203; dashboard_app.py 967-989
FsMask ==
    /\ fs_pc = "called"
    /\ fs_sub' = WithCategory(fs_fn,
                    SelectSeq(fs_df, LAMBDA r : FuelMask(fs_fn, fs_columns, fs_args, r)))
    /\ fs_pc' = "masked"
    /\ UNCHANGED <<fs_fn, fs_df, fs_columns, fs_args, fuel_counts, fuel_wide>>
    /\ UNCHANGED notFs

\* plots_epa.py 206-207
FsRaiseNoFuelType ==
    /\ fs_pc = "masked"
    /\ fs_fn = "compute_fuel_share_by_year"
    /\ "FuelType" \notin fs_columns
    /\ fs_pc' = "ValueError"
    /\ UNCHANGED <<fs_fn, fs_df, fs_columns, fs_args, fs_sub, fuel_counts, fuel_wide>>
    /\ UNCHANGED notFs

\* dashboard_app.py 996-1009: the message "No data available", and return
FsNoData ==
    /\ fs_pc = "masked"
    /\ fs_fn = "update_fuel_share_chart"
    /\ Len(fs_sub) = 0
    /\ fs_pc' = "no_data"
    /\ UNCHANGED <<fs_fn, fs_df, fs_columns, fs_args, fs_sub, fuel_counts, fuel_wide>>
    /\ UNCHANGED notFs

\* plots_epa.py 210-214; dashboard_app.py 1012-1016
FsCount ==
    /\ fs_pc = "masked"
    /\ IF fs_fn = "update_fuel_share_chart" THEN Len(fs_sub) # 0
       ELSE "FuelType" \in fs_columns
    /\ fuel_counts' = GroupSize(fs_sub)
    /\ fs_pc' = "counted"
    /\ UNCHANGED <<fs_fn, fs_df, fs_columns, fs_args, fs_sub, fuel_wide>>
    /\ UNCHANGED notFs

\* plots_epa.py 217-224; dashboard_app.py 1019-1021
FsPivot ==
    /\ fs_pc = "counted"
    /\ fuel_wide' = FillNa(Pivot(fuel_counts))
    /\ fs_pc' = "pivoted"
    /\ UNCHANGED <<fs_fn, fs_df, fs_columns, fs_args, fs_sub, fuel_counts>>
    /\ UNCHANGED notFs

(***************************************************************************)
(* The percentage mode of the fuel-share figures: make_epa_fuel_share_figure *)
(* (plots_epa.py 257-304), which draws the table of                        *)
(* compute_fuel_share_by_year, and update_fuel_share_chart                 *)
(* (dashboard_app.py 1023-1031).  The shares are exact fractions.          *)
(***************************************************************************)
RatAdd(a, b) == Rat(a.num * b.den + b.num * a.den, a.den * b.den)
RatDiv(a, b) == Rat(a.num * b.den, a.den * b.num)
RatTimes(a, n) == Rat(a.num * n, a.den)
RatLeq(a, b) == a.num * b.den <= b.num * a.den

RECURSIVE SumCells(_, _)
\* the sum of the cells of the columns cols of one row
SumCells(cells, cols) ==
    IF cols = {} THEN Rat(0, 1)
    ELSE LET c == CHOOSE c \in cols : TRUE
         IN  RatAdd(cells[c], SumCells(cells, cols \ {c}))

\* fuel_cols: every column but 'Year'
fuel_cols(wide) == IF wide = <<>> THEN {} ELSE DOMAIN wide[1].count

\* fuel_wide[fuel_cols].sum(axis=1), for one row
RowSum(row) == SumCells(row.count, DOMAIN row.count)

\* row_sums.replace(0, 1)
ReplaceZero(s) == IF s = Rat(0, 1) THEN Rat(1, 1) ELSE s

\* for col in fuel_cols: fuel_wide[col] = (fuel_wide[col] / row_sums) * 100
Percent(wide) ==
    LET row_sums == [k \in DOMAIN wide |-> ReplaceZero(RowSum(wide[k]))]
    IN  [k \in DOMAIN wide |->
            [wide[k] EXCEPT !.count = [col \in DOMAIN wide[k].count |->
                RatTimes(RatDiv(wide[k].count[col], row_sums[k]), 100)]]]

\* plots_epa.py 260-294: an empty table, or a table without a fuel column, gives
\* the figure with a message
FsFigureNoData ==
    /\ fs_pc = "pivoted"
    /\ fs_fn = "compute_fuel_share_by_year"
    /\ Len(fuel_wide) = 0 \/ fuel_cols(fuel_wide) = {}
    /\ fs_pc' = "no_data"
    /\ UNCHANGED <<fs_fn, fs_df, fs_columns, fs_args, fs_sub, fuel_counts, fuel_wide>>
    /\ UNCHANGED notFs

\* plots_epa.py 297-304; dashboard_app.py 1027-1031
FsPercent ==
    /\ fs_pc = "pivoted"
    /\ Len(fuel_wide) # 0 /\ fuel_cols(fuel_wide) # {}
    /\ fs_args.use_percent
    /\ fuel_wide' = Percent(fuel_wide)
    /\ fs_pc' = "plotting"
    /\ UNCHANGED <<fs_fn, fs_df, fs_columns, fs_args, fs_sub, fuel_counts>>
    /\ UNCHANGED notFs

\* the same place with use_percent false: the counts are drawn
FsRawCounts ==
    /\ fs_pc = "pivoted"
    /\ Len(fuel_wide) # 0 /\ fuel_cols(fuel_wide) # {}
    /\ ~fs_args.use_percent
    /\ fs_pc' = "plotting"
    /\ UNCHANGED <<fs_fn, fs_df, fs_columns, fs_args, fs_sub, fuel_counts, fuel_wide>>
    /\ UNCHANGED notFs

(***************************************************************************)
(* The operations on the tables of their caller.  A table is an object     *)
(* that names refer to: DataFrame.copy(), a selection df[mask] or          *)
(* df.loc[mask], and a group-by each make a new object, and an assignment  *)
(* df[col] = ... writes into the object that df refers to.  heap[1] is the *)
(* caller's EPA table and heap[2] the caller's sports table; the objects   *)
(* an operation makes are its locals and are gone when it returns.         *)
(***************************************************************************)
\* a new object holding a table: the heap with it, and the reference to it
Alloc(h, table) == [heap |-> Append(h, table), ref |-> Len(h) + 1]

\* df.copy()
CopyOf(h, ref) == Alloc(h, h[ref])

\* a selection that drops the other rows from the table itself
SelectMutInPlace(h, ref, rows) == [heap |-> [h EXCEPT ![ref] = rows], ref |-> ref]

\* df[mask], df.loc[mask]: a new table of the rows kept
Select(h, ref, rows) == Alloc(h, rows)

\* df[col] = ...: the table that df refers to, with the column written
Store(h, ref, table) == [heap |-> [h EXCEPT ![ref] = table], ref |-> ref]

YearMask(df, range) == SelectSeq(df, LAMBDA r : InYearRange(r.Year, range))

\* filter_sports_from_epa (cleaning.py 384-399), on a table with Make and Model;
\* the selections of the keyword loop are taken together
filter_sports_from_epa(h) ==
    LET c == CopyOf(h, 1)
        b == Select(c.heap, c.ref, DropBrands(c.heap[c.ref]))
    IN  Select(b.heap, b.ref, DropKeywords(b.heap[b.ref], 1))

\* compute_epa_yearly_aggregates (plots_epa.py 35-58) on heap[1],
\* compute_sports_yearly_aggregates (plots_sports.py 36-60) on heap[2]
yearly_aggregates(h, fn, args) ==
    LET src  == IF fn = "epa" THEN 1 ELSE 2
        cols == IF fn = "epa" THEN EpaColumns ELSE SportsColumns
        s    == Select(h, src, SelectSeq(h[src], LAMBDA r : Mask(fn, cols, args, r)))
        c    == CopyOf(s.heap, s.ref)
    IN  Alloc(c.heap, GroupMean(fn, c.heap[c.ref]))

\* make_epa_trend_figure (plots_epa.py 93-110), make_sports_trend_figure
\* (plots_sports.py 98-115) and the two trend charts of the dashboard
\* (dashboard_app.py 448-464, 560-580)
trend_figure(h, fn, args, normalize) ==
    LET yr == yearly_aggregates(h, IF fn \in {"epa", "dashboard_epa"} THEN "epa"
                                   ELSE "sports", args)
        pl == CopyOf(yr.heap, yr.ref)
    IN  IF normalize THEN Store(pl.heap, pl.ref, Normalize(fn, pl.heap[pl.ref]))
        ELSE pl

\* make_epa_fuel_share_figure (plots_epa.py 257-304) with
\* compute_fuel_share_by_year (195-224)
fuel_share_figure(h, args) ==
    LET fn == "compute_fuel_share_by_year"
        s  == Select(h, 1, SelectSeq(h[1], LAMBDA r : FuelMask(fn, EpaColumns, args, r)))
        c  == CopyOf(s.heap, s.ref)
        w  == Alloc(c.heap, FillNa(Pivot(GroupSize(WithCategory(fn, c.heap[c.ref])))))
    IN  IF Len(w.heap[w.ref]) # 0 /\ args.use_percent
        THEN Store(w.heap, w.ref, Percent(w.heap[w.ref]))
        ELSE w

\* update_fuel_share_chart (dashboard_app.py 966-1031)
update_fuel_share_chart(h, args) ==
    LET fn  == "update_fuel_share_chart"
        s   == Select(h, 1, YearMask(h[1], <<args.year_min, args.year_max>>))
        c   == CopyOf(s.heap, s.ref)
        cat == Store(c.heap, c.ref, WithCategory(fn, c.heap[c.ref]))
        f   == IF selected_categories(args) # <<>>
               THEN Select(cat.heap, cat.ref,
                           SelectSeq(cat.heap[cat.ref], LAMBDA r :
                               r.Category \in Range(selected_categories(args))))
               ELSE cat
        w   == Alloc(f.heap, FillNa(Pivot(GroupSize(f.heap[f.ref]))))
    IN  IF Len(f.heap[f.ref]) = 0 THEN f
        ELSE IF args.use_percent THEN Store(w.heap, w.ref, Percent(w.heap[w.ref]))
        ELSE w

RECURSIVE IndexBlocks(_, _, _)
\* the blocks of make_indices_chart for the yearly means at refs[k..]: a copy,
\* the index column written into the copy, the selection of the two columns;
\* KeyError from the selection when the copy has no row
IndexBlocks(h, refs, k) ==
    IF k > Len(refs) THEN [heap |-> h, ref |-> Len(h), raised |-> FALSE]
    ELSE LET c == CopyOf(h, refs[k])
         IN  IF Len(c.heap[c.ref]) = 0
             THEN [heap |-> c.heap, ref |-> c.ref, raised |-> TRUE]
             ELSE LET st == Store(c.heap, c.ref, IndexSeries(c.heap[c.ref]))
                      sl == Alloc(st.heap, st.heap[st.ref])
                  IN  IndexBlocks(sl.heap, refs, k + 1)

RECURSIVE YearlyMeans(_, _, _, _)
\* the yearly means of the series names[k..], of the tables at from[k..]
YearlyMeans(h, names, from, k) ==
    IF k > Len(names) THEN h
    ELSE YearlyMeans(Alloc(h, GroupMeanOf(h[from[k]], SeriesColumn(names[k]))).heap,
                     names, from, k + 1)

\* make_indices_chart (plots_act3.py 100-181)
make_indices_chart(h, range) ==
    LET sf   == CopyOf(Select(h, 2, YearMask(h[2], range)).heap, Len(h) + 1)
        es   == Select(sf.heap, 1, YearMask(sf.heap[1], range))
        ef   == CopyOf(es.heap, es.ref)
        gas  == Select(ef.heap, ef.ref,
                       SelectSeq(ef.heap[ef.ref], LAMBDA r : r.FuelType \in gas_types))
        ev   == Select(gas.heap, ef.ref,
                       SelectSeq(gas.heap[ef.ref], LAMBDA r : r.FuelType \in electric_types))
        from == <<gas.ref, sf.ref, ev.ref>>
        hp   == YearlyMeans(ev.heap, SubSeq(SeriesNames, 1, 3), from, 1)
        perf == IndexBlocks(hp, <<Len(hp) - 2, Len(hp) - 1, Len(hp)>>, 1)
        mpg  == YearlyMeans(perf.heap, SubSeq(SeriesNames, 4, 6), from, 1)
    IN  IF perf.raised THEN perf
        ELSE IndexBlocks(mpg, <<Len(mpg) - 2, Len(mpg) - 1, Len(mpg)>>, 1)

MaxFrameRows == 2

\* rows of the caller's EPA table: (make, model, year, fuel type)
FrEpaCases ==
    {<<"Toyota", ModelCamry, Yr(FirstYear), "Regular">>,
     <<"Porsche", Model911, Yr(FirstYear + 1), "Premium">>,
     <<"BMW", ModelM3, Yr(FirstYear), "Electricity">>}
FrEpa(c) ==
    EpaRow(c[1], c[2], c[3], c[4], Flt(FALSE, 25, 1), Flt(FALSE, 178, 0),
           Flt(FALSE, 81, 1), Flt(FALSE, 28, 0), Flt(FALSE, 317, 0))
\* rows of the caller's sports table: (year, horsepower)
FrSportsCases ==
    [k \in 1..MaxFrameRows |-> <<Yr(FirstYear + ((k - 1) % 2)), Flt(FALSE, 100 * k, 0)>>]
FrSports(c) == AggSports(c[1], "Porsche", c[2])
FrRanges == {<<FirstYear, FirstYear + 1>>, <<FirstYear + 1, FirstYear + 1>>}

FrIdle ==
    /\ heap = <<>>
    /\ fr_call = "none"
    /\ fr_result = <<>>

FrInit ==
    /\ \E e \in SeqsUpTo(FrEpaCases, MaxFrameRows), n \in 0..MaxFrameRows :
          heap = <<[i \in DOMAIN e |-> FrEpa(e[i])], [i \in 1..n |-> FrSports(FrSportsCases[i])]>>
    /\ fr_call = "none"
    /\ fr_result = <<>>

\* the return of a call: the objects it made are dropped, but for its result
Return(name, out) ==
    /\ heap' = SubSeq(out.heap, 1, 2)
    /\ fr_call' = name
    /\ fr_result' = out.heap[out.ref]
    /\ UNCHANGED notFr

FrFilterSports ==
    /\ Len(heap) = 2
    /\ Return("filter_sports_from_epa", filter_sports_from_epa(heap))

FrYearlyAggregates ==
    /\ Len(heap) = 2
    /\ \E fn \in {"epa", "sports"}, range \in FrRanges : \E f \in AggFilters(fn) :
          Return("yearly_aggregates",
                 yearly_aggregates(heap, fn, [year_min |-> range[1], year_max |-> range[2],
                                              filter |-> f]))

FrTrendFigure ==
    /\ Len(heap) = 2
    /\ \E fn \in {"epa", "sports", "dashboard_epa", "dashboard_sports"},
          range \in FrRanges, normalize \in BOOLEAN :
          Return("trend_figure",
                 trend_figure(heap, fn, [year_min |-> range[1], year_max |-> range[2],
                                         filter |-> NoneArg], normalize))

FrFuelShareFigure ==
    /\ Len(heap) = 2
    /\ \E range \in FrRanges, f \in FsFilters, p \in BOOLEAN :
          Return("fuel_share_figure",
                 fuel_share_figure(heap, [year_min |-> range[1], year_max |-> range[2],
                                          filter |-> f, chk_gas |-> FALSE,
                                          chk_electric |-> FALSE, use_percent |-> p]))

FrUpdateFuelShareChart ==
    /\ Len(heap) = 2
    /\ \E range \in FrRanges, g, e, p \in BOOLEAN :
          Return("update_fuel_share_chart",
                 update_fuel_share_chart(heap, [year_min |-> range[1], year_max |-> range[2],
                                                filter |-> NoneArg, chk_gas |-> g,
                                                chk_electric |-> e, use_percent |-> p]))

FrIndicesChart ==
    /\ Len(heap) = 2
    /\ \E range \in FrRanges :
          Return("make_indices_chart", make_indices_chart(heap, range))

(***************************************************************************)
(* The year range of the control panel of Act1Tab.  A change of a spin box *)
(* emits valueChanged, and Qt calls the slots of the signal one after the  *)
(* other in the order they were connected; a spin box with its signals     *)
(* blocked emits nothing.                                                  *)
(***************************************************************************)
\* setRange(2011, 2024) of both spin boxes
spin_minimum == 2011
spin_maximum == 2024

\* the charts drawn before the validation
valueChangedMutChartsFirst ==
    <<"update_sports_trendlines_chart", "update_epa_trendlines_chart",
      "update_comparison_chart", "_validate_year_range">>

\* the slots of valueChanged of either spin box, in the order of the connect
\* calls: ControlPanel.__init__ (137-138), then Act1Tab._connect_signals
\* (816-817, 823-824, 833-834)
valueChanged ==
    <<"_validate_year_range", "update_sports_trendlines_chart",
      "update_epa_trendlines_chart", "update_comparison_chart">>

\* what QSpinBox.setValue emits
Emitted(old, value, blocked) == IF value # old /\ ~blocked THEN valueChanged ELSE <<>>

NoChange == [spin |-> "none", value |-> 0]
NotRead == <<>>

CpIdle ==
    /\ year_min_spin = 0
    /\ year_max_spin = 0
    /\ cp_user = NoChange
    /\ cp_pending = <<>>
    /\ cp_read = NotRead

\* ControlPanel.__init__ with the defaults, the connections of Act1Tab, and the
\* first drawing of the charts (354-356)
CpInit ==
    /\ year_min_spin = spin_minimum
    /\ year_max_spin = spin_maximum
    /\ cp_user = NoChange
    /\ cp_pending = <<>>
    /\ cp_read = <<spin_minimum, spin_maximum>>

\* the user changes the minimum
UserSetsYearMin ==
    /\ cp_pending = <<>>
    /\ cp_read # NotRead
    /\ \E value \in spin_minimum..spin_maximum :
          /\ value # year_min_spin
          /\ year_min_spin' = value
          /\ cp_user' = [spin |-> "year_min_spin", value |-> value]
          /\ cp_pending' = Emitted(year_min_spin, value, FALSE)
    /\ UNCHANGED <<year_max_spin, cp_read>>
    /\ UNCHANGED notCp

\* the user changes the maximum
UserSetsYearMax ==
    /\ cp_pending = <<>>
    /\ cp_read # NotRead
    /\ \E value \in spin_minimum..spin_maximum :
          /\ value # year_max_spin
          /\ year_max_spin' = value
          /\ cp_user' = [spin |-> "year_max_spin", value |-> value]
          /\ cp_pending' = Emitted(year_max_spin, value, FALSE)
    /\ UNCHANGED <<year_min_spin, cp_read>>
    /\ UNCHANGED notCp

\* ControlPanel._validate_year_range (245-261): the signals are blocked around
\* year_min_spin.setValue(max_val)
ValidateYearRange ==
    /\ cp_pending # <<>>
    /\ Head(cp_pending) = "_validate_year_range"
    /\ LET min_val == year_min_spin
           max_val == year_max_spin
       IN  IF min_val > max_val
           THEN /\ year_min_spin' = max_val
                /\ cp_pending' = Emitted(min_val, max_val, TRUE) \o Tail(cp_pending)
           ELSE /\ year_min_spin' = year_min_spin
                /\ cp_pending' = Tail(cp_pending)
    /\ UNCHANGED <<year_max_spin, cp_user, cp_read>>
    /\ UNCHANGED notCp

\* a chart update reads the two spin boxes (426-427, 532-533, 645-646)
UpdateChart ==
    /\ cp_pending # <<>>
    /\ Head(cp_pending) # "_validate_year_range"
    /\ cp_read' = <<year_min_spin, year_max_spin>>
    /\ cp_pending' = Tail(cp_pending)
    /\ UNCHANGED <<year_min_spin, year_max_spin, cp_user>>
    /\ UNCHANGED notCp

(***************************************************************************)
(* Act1Tab.update_comparison_chart (dashboard_app.py 638-791), from the    *)
(* two yearly aggregates it computes to the axis limits it sets.           *)
(***************************************************************************)
\* (column, inverted) of sports_metrics and of epa_metrics
sports_metrics == <<<<"EngineSize", FALSE>>, <<"Horsepower", FALSE>>, <<"ZeroSixty", TRUE>>>>
epa_metrics == <<<<"Displacement", FALSE>>, <<"CombinedMpg", FALSE>>, <<"Co2", TRUE>>>>

\* the float a division by 0.0 gives
Inf == [t |-> "inf"]

\* end_norm of lines 708-713 (743-748)
EndNorm(start_val, end_val, invert) ==
    IF invert THEN (IF end_val.num = 0 THEN Inf ELSE Scale(start_val, end_val))
              ELSE Scale(end_val, start_val)

\* the loop of lines 699-722 (734-757): a metric is drawn when two yearly means of
\* it are not NaN and the first is not 0
Slopes(yr, metrics, market) ==
    LET RECURSIVE Loop(_)
        Loop(k) ==
            IF k > Len(metrics) THEN <<>>
            ELSE LET values == DropNa(yr, metrics[k][1])
                 IN  (IF Len(values) >= 2 /\ values[1].num # 0
                      THEN <<[market |-> market, col |-> metrics[k][1],
                              start |-> Rat(100, 1),
                              end |-> EndNorm(values[1], values[Len(values)], metrics[k][2])]>>
                      ELSE <<>>) \o Loop(k + 1)
    IN  Loop(1)

MaxCompareYears == 2

\* the yearly means of the three metrics of a market in one year
CmpCells ==
    {<<Null, Null, Null>>, <<Rat(40, 1), Rat(40, 1), Rat(40, 1)>>,
     <<Rat(0, 1), Rat(44, 1), Rat(48, 1)>>, <<Null, Rat(48, 1), Rat(44, 1)>>,
     <<Rat(40, 1), Rat(44, 1), Rat(0, 1)>>}

\* the results a yearly aggregator can give for a range: a row for some of the
\* years, in increasing order
CmpYearly(metrics, range) ==
    LET Rows(S, cells) ==
            [k \in 1..Cardinality(S) |->
                [Year |-> Ascending(S)[k],
                 mean |-> [c \in {metrics[n][1] : n \in DOMAIN metrics} |->
                              cells[Ascending(S)[k]][CHOOSE n \in DOMAIN metrics : metrics[n][1] = c]]]]
    IN  UNION {{Rows(S, cells) : cells \in [S -> CmpCells]} : S \in SUBSET (range[1]..range[2])}

CmpIdle ==
    /\ cmp_range = <<>>
    /\ sports_yearly = <<>>
    /\ epa_yearly = <<>>
    /\ metrics_data = <<>>
    /\ cmp_pc = "idle"

\* lines 645-674: the range of the control panel and the two aggregates
CmpInit ==
    /\ \E len \in 1..MaxCompareYears : cmp_range = <<FirstYear, FirstYear + len - 1>>
    /\ sports_yearly \in CmpYearly(sports_metrics, cmp_range)
    /\ epa_yearly \in CmpYearly(epa_metrics, cmp_range)
    /\ metrics_data = <<>>
    /\ cmp_pc = "aggregated"

\* lines 677-685
CmpNoData ==
    /\ cmp_pc = "aggregated"
    /\ Len(sports_yearly) = 0 \/ Len(epa_yearly) = 0
    /\ cmp_pc' = "no_data"
    /\ UNCHANGED <<cmp_range, sports_yearly, epa_yearly, metrics_data>>
    /\ UNCHANGED notCmp

\* lines 688-757
CmpCollect ==
    /\ cmp_pc = "aggregated"
    /\ Len(sports_yearly) # 0 /\ Len(epa_yearly) # 0
    /\ metrics_data' = Slopes(sports_yearly, sports_metrics, "Sports")
                          \o Slopes(epa_yearly, epa_metrics, "EPA")
    /\ cmp_pc' = "collected"
    /\ UNCHANGED <<cmp_range, sports_yearly, epa_yearly>>
    /\ UNCHANGED notCmp

\* lines 759-791: the lines are drawn and the axis limits set from the least and
\* the greatest of the values
CmpDraw ==
    /\ cmp_pc = "collected"
    /\ metrics_data # <<>>
    /\ \A k \in DOMAIN metrics_data : metrics_data[k].end # Inf
    /\ cmp_pc' = "drawn"
    /\ UNCHANGED <<cmp_range, sports_yearly, epa_yearly, metrics_data>>
    /\ UNCHANGED notCmp

\* lines 781-782: min() and max() of an empty list raise ValueError, and so does
\* set_ylim with a limit that is not finite
CmpRaiseValueError ==
    /\ cmp_pc = "collected"
    /\ \/ metrics_data = <<>>
       \/ \E k \in DOMAIN metrics_data : metrics_data[k].end = Inf
    /\ cmp_pc' = "ValueError"
    /\ UNCHANGED <<cmp_range, sports_yearly, epa_yearly, metrics_data>>
    /\ UNCHANGED notCmp

(***************************************************************************)
(* The fuel check boxes of the control panel (dashboard_app.py 181-184)    *)
(* and the records the EPA charts that read them are computed from:        *)
(* update_epa_trendlines_chart (525-565), update_comparison_chart          *)
(* (658-674) and update_fuel_share_chart (948-989).                        *)
(***************************************************************************)
RECURSIVE ListOf(_)
\* a list of the elements of a set; isin does not depend on the order
ListOf(S) ==
    IF S = {} THEN <<>>
    ELSE LET x == CHOOSE y \in S : TRUE IN <<x>> \o ListOf(S \ {x})

\* a list that stands for both groups when no box is checked
selected_fuel_typesMutBothWhenNone(gas, electric) ==
    IF gas \/ electric
    THEN (IF gas THEN ListOf(gas_types) ELSE <<>>)
            \o (IF electric THEN ListOf(electric_types) ELSE <<>>)
    ELSE ListOf(gas_types) \o ListOf(electric_types)

\* selected_fuel_types of lines 550-554 (665-669); the order within a group is
\* left out
selected_fuel_types(gas, electric) ==
    (IF gas THEN ListOf(gas_types) ELSE <<>>)
       \o (IF electric THEN ListOf(electric_types) ELSE <<>>)

\* fuel_types=selected_fuel_types if selected_fuel_types else None
fuel_types_passed(gas, electric) ==
    IF selected_fuel_types(gas, electric) # <<>>
    THEN ListArg(selected_fuel_types(gas, electric)) ELSE NoneArg

DbCharts == {"update_epa_trendlines_chart", "update_comparison_chart",
             "update_fuel_share_chart"}

\* the index labels of the records compute_epa_yearly_aggregates keeps for a filter
AggregatorRecords(df, range, filter) ==
    {i \in DOMAIN df :
        Mask("epa", EpaColumns,
             [year_min |-> range[1], year_max |-> range[2], filter |-> filter], df[i])}

\* the index labels of the records a chart is computed from
ChartRecords(chart, df, range, gas, electric) ==
    IF chart = "update_fuel_share_chart"
    THEN {i \in DOMAIN df :
             FuelMask("update_fuel_share_chart", EpaColumns,
                      [year_min |-> range[1], year_max |-> range[2], filter |-> NoneArg,
                       chk_gas |-> gas, chk_electric |-> electric, use_percent |-> FALSE],
                      df[i])}
    ELSE AggregatorRecords(df, range, fuel_types_passed(gas, electric))

MaxDashRows == 2

DbIdle ==
    /\ db_epa = <<>>
    /\ db_range = <<>>
    /\ chk_gas = TRUE
    /\ chk_electric = TRUE
    /\ db_chart = "none"
    /\ db_read = <<>>
    /\ db_sub = {}

\* lines 181-184: both boxes start checked
DbInit ==
    /\ \E cs \in SeqsUpTo(FsCases, MaxDashRows) : db_epa = [i \in DOMAIN cs |-> FsRow(cs[i])]
    /\ db_range \in FsRanges
    /\ chk_gas = TRUE
    /\ chk_electric = TRUE
    /\ db_chart = "none"
    /\ db_read = <<>>
    /\ db_sub = {}

\* the user at the Gasoline box
ToggleGas ==
    /\ db_range # <<>>
    /\ chk_gas' = ~chk_gas
    /\ UNCHANGED <<db_epa, db_range, chk_electric, db_chart, db_read, db_sub>>
    /\ UNCHANGED notDb

\* the user at the Electric box
ToggleElectric ==
    /\ db_range # <<>>
    /\ chk_electric' = ~chk_electric
    /\ UNCHANGED <<db_epa, db_range, chk_gas, db_chart, db_read, db_sub>>
    /\ UNCHANGED notDb

\* lines 525-565
UpdateEpaTrendlinesChart ==
    /\ db_range # <<>>
    /\ db_chart' = "update_epa_trendlines_chart"
    /\ db_read' = <<chk_gas, chk_electric>>
    /\ db_sub' = ChartRecords("update_epa_trendlines_chart", db_epa, db_range, chk_gas, chk_electric)
    /\ UNCHANGED <<db_epa, db_range, chk_gas, chk_electric>>
    /\ UNCHANGED notDb

\* lines 658-674
UpdateComparisonChart ==
    /\ db_range # <<>>
    /\ db_chart' = "update_comparison_chart"
    /\ db_read' = <<chk_gas, chk_electric>>
    /\ db_sub' = ChartRecords("update_comparison_chart", db_epa, db_range, chk_gas, chk_electric)
    /\ UNCHANGED <<db_epa, db_range, chk_gas, chk_electric>>
    /\ UNCHANGED notDb

\* lines 948-989
UpdateFuelShareChart ==
    /\ db_range # <<>>
    /\ db_chart' = "update_fuel_share_chart"
    /\ db_read' = <<chk_gas, chk_electric>>
    /\ db_sub' = ChartRecords("update_fuel_share_chart", db_epa, db_range, chk_gas, chk_electric)
    /\ UNCHANGED <<db_epa, db_range, chk_gas, chk_electric>>
    /\ UNCHANGED notDb

(***************************************************************************)
(* Specifications                                                          *)
(***************************************************************************)
\* the components added after the loaders, not running
OthersIdle == YrIdle /\ TrIdle /\ IxIdle /\ FsIdle /\ FrIdle /\ CpIdle /\ CmpIdle /\ DbIdle

\* the cleaning chain on one cell
InitNorm == NzInit /\ FlIdle /\ MgIdle /\ LdIdle /\ AgIdle /\ OthersIdle
NextNorm ==
    \/ NzAsTypeStr
    \/ NzReplaceComma
    \/ NzReplaceDollar
    \/ NzExtract
    \/ NzToNumeric
SpecNorm == InitNorm /\ [][NextNorm]_vars

\* enrich_sports_dataset.py followed by load_and_clean_sports_with_mpg, and the
\* two loaders on tables of their own
InitSports ==
    /\ NzIdle /\ FlIdle /\ AgIdle /\ OthersIdle
    /\ \/ MgInit /\ LdIdle
       \/ MgIdle /\ LdInit
NextSports ==
    \/ ExtractBrands
    \/ ExtractKeywords
    \/ ExtractDropDuplicates
    \/ MapEpaColumns
    \/ Merge
    \/ ConvertNumeric
    \/ SaveAndLoad
    \/ LdCleanColumns
    \/ LdYearFilter
    \/ LdRaiseNoYear
    \/ LdSortDropDuplicates
    \/ LdRaiseNoPrice
SpecSports == InitSports /\ [][NextSports]_vars

\* enrich_sports_dataset.py alone: the merge, up to the table it saves
InitMerge == NzIdle /\ FlIdle /\ AgIdle /\ OthersIdle /\ MgInit /\ LdIdle
NextMerge ==
    \/ ExtractBrands
    \/ ExtractKeywords
    \/ ExtractDropDuplicates
    \/ MapEpaColumns
    \/ Merge
    \/ ConvertNumeric
SpecMerge == InitMerge /\ [][NextMerge]_vars

\* the two classifications of one EPA row
InitClass == NzIdle /\ ClassInit /\ LdIdle /\ AgIdle /\ OthersIdle
NextClass ==
    \/ FilterCopy
    \/ FilterBrands
    \/ FilterKeywords
    \/ ExtractBrands
    \/ ExtractKeywords
    \/ ExtractDropDuplicates
SpecClass == InitClass /\ [][NextClass]_vars

\* the two classifiers on one EPA file of several rows
InitSplit == NzIdle /\ SplitInit /\ LdIdle /\ AgIdle /\ OthersIdle
NextSplit ==
    \/ FilterCopy
    \/ FilterBrands
    \/ FilterKeywords
    \/ ExtractBrands
    \/ ExtractKeywords
    \/ ExtractDropDuplicates
SpecSplit == InitSplit /\ [][NextSplit]_vars

\* the normalization of a trend figure, and one call of make_indices_chart
InitIndex ==
    /\ NzIdle /\ FlIdle /\ MgIdle /\ LdIdle /\ AgIdle /\ YrIdle /\ FsIdle /\ FrIdle
    /\ CpIdle /\ CmpIdle /\ DbIdle
    /\ \/ TrInit /\ IxIdle
       \/ TrIdle /\ IxInit
NextIndex ==
    \/ TrCopy
    \/ TrNormalize
    \/ TrPlain
    \/ IxFilterYears
    \/ IxSplit
    \/ IxPerfYearly
    \/ IxEffYearly
    \/ IxIndex
    \/ IxRaiseKeyError
SpecIndex == InitIndex /\ [][NextIndex]_vars

\* one fuel-share figure
InitShare ==
    /\ NzIdle /\ FlIdle /\ MgIdle /\ LdIdle /\ AgIdle /\ YrIdle /\ TrIdle /\ IxIdle
    /\ FrIdle
    /\ CpIdle /\ CmpIdle /\ DbIdle
    /\ FsInit
NextShare ==
    \/ FsMask
    \/ FsRaiseNoFuelType
    \/ FsNoData
    \/ FsCount
    \/ FsPivot
    \/ FsFigureNoData
    \/ FsPercent
    \/ FsRawCounts
SpecShare == InitShare /\ [][NextShare]_vars

\* the user at the fuel check boxes, and the charts
InitDash ==
    /\ NzIdle /\ FlIdle /\ MgIdle /\ LdIdle /\ AgIdle /\ YrIdle /\ TrIdle /\ IxIdle
    /\ FsIdle /\ FrIdle /\ CpIdle /\ CmpIdle
    /\ DbInit
NextDash ==
    \/ ToggleGas
    \/ ToggleElectric
    \/ UpdateEpaTrendlinesChart
    \/ UpdateComparisonChart
    \/ UpdateFuelShareChart
SpecDash == InitDash /\ [][NextDash]_vars

\* one update of the comparison chart
InitCompare ==
    /\ NzIdle /\ FlIdle /\ MgIdle /\ LdIdle /\ AgIdle /\ YrIdle /\ TrIdle /\ IxIdle
    /\ FsIdle /\ FrIdle /\ CpIdle /\ DbIdle
    /\ CmpInit
NextCompare ==
    \/ CmpNoData
    \/ CmpCollect
    \/ CmpDraw
    \/ CmpRaiseValueError
SpecCompare == InitCompare /\ [][NextCompare]_vars

\* the user at the year range of the control panel
InitPanel ==
    /\ NzIdle /\ FlIdle /\ MgIdle /\ LdIdle /\ AgIdle /\ YrIdle /\ TrIdle /\ IxIdle
    /\ FsIdle /\ FrIdle /\ CmpIdle /\ DbIdle
    /\ CpInit
NextPanel ==
    \/ UserSetsYearMin
    \/ UserSetsYearMax
    \/ ValidateYearRange
    \/ UpdateChart
SpecPanel == InitPanel /\ [][NextPanel]_vars

\* calls, one after the other, on the two tables of one caller
InitFrame ==
    /\ NzIdle /\ FlIdle /\ MgIdle /\ LdIdle /\ AgIdle /\ YrIdle /\ TrIdle /\ IxIdle
    /\ FsIdle
    /\ CpIdle /\ CmpIdle /\ DbIdle
    /\ FrInit
NextFrame ==
    \/ FrFilterSports
    \/ FrYearlyAggregates
    \/ FrTrendFigure
    \/ FrFuelShareFigure
    \/ FrUpdateFuelShareChart
    \/ FrIndicesChart
SpecFrame == InitFrame /\ [][NextFrame]_vars

\* one call of a yearly aggregator of plots_epa.py, plots_sports.py or aggregates.py
InitAgg ==
    /\ NzIdle /\ FlIdle /\ MgIdle /\ LdIdle /\ TrIdle /\ IxIdle /\ FsIdle /\ FrIdle
    /\ CpIdle /\ CmpIdle /\ DbIdle
    /\ \/ AgInit /\ YrIdle
       \/ AgIdle /\ YrInit
NextAgg ==
    \/ AgMask
    \/ AgRaiseNoYear
    \/ AgGroup
    \/ AgRaiseColumnsNotFound
    \/ YrRaiseMissing
    \/ YrGroup
SpecAgg == InitAgg /\ [][NextAgg]_vars

(***************************************************************************)
(* Properties                                                              *)
(***************************************************************************)
CountKey(df, key) == Cardinality({i \in DOMAIN df : SportsKey(df[i]) = key})

CountRow(df, r) == Cardinality({i \in DOMAIN df : df[i] = r})
Merged == mg_pc \in {"merged", "converted", "saved"}
\* the price a row carries once cleaned, Null when it carries none
PriceOf(r) == CleanNumeric("enrich", r.Price)

\* C1, as stated: the merged sports table (the sports rows followed by the new
\* EPA-derived rows) never holds two rows with the same (make, model, year).
C1_NoDuplicateKeys ==
    Merged => \A i, j \in DOMAIN enriched_sports :
                 i < j => SportsKey(enriched_sports[i]) # SportsKey(enriched_sports[j])

\* C1, amended: two rows of the merged table have the same (make, model, year), with
\* model and year present, only when both are rows of the sports input; an
\* EPA-derived row never repeats the key of a sports row or of another EPA-derived row.
C1_OnlySportsRowsRepeatKeys ==
    Merged => \A i, j \in DOMAIN enriched_sports :
                 (/\ i < j
                  /\ SportsKey(enriched_sports[i]) = SportsKey(enriched_sports[j])
                  /\ enriched_sports[i].Year # Null
                  /\ enriched_sports[i].CarModel # Null)
                 => j <= Len(sports)

\* a merge that added an EPA-derived row and held one back for a sports row's key
C1_Witness ==
    /\ mg_pc = "merged"
    /\ Len(enriched_sports) > Len(sports)
    /\ \E i \in DOMAIN epa_sports_mapped, j \in DOMAIN sports :
          /\ SportsKey(epa_sports_mapped[i]) = SportsKey(sports[j])
          /\ epa_sports_mapped[i].Year # Null

\* C2: in the table load_and_clean_sports_with_mpg returns for the merged file, a key
\* in the year range for which some input row (sports or EPA-derived) carries a price
\* has exactly one row, and that row carries the highest price among them; so
\* (Porsche, 911, 2020, 120000) against a priceless EPA-derived row keeps 120000.
C2_PriceKept ==
    (mg_pc = "saved" /\ ld_pc = "returned") =>
        \A r \in Range(sports) \cup Range(epa_sports_mapped) :
            (InYearRange(r.Year, ld_range) /\ PriceOf(r) # Null) =>
                /\ CountKey(sports_clean, SportsKey(r)) = 1
                /\ \A x \in Range(sports_clean) :
                      SportsKey(x) = SportsKey(r) =>
                          /\ x.Price # Null
                          /\ ~NumLess(x.Price, PriceOf(r))

\* the Porsche 911 of 2020 at 120000 in the sports table, the same car without a
\* price from the EPA table, and one row for it at 120000 in the end
C2_Witness ==
    /\ mg_pc = "saved" /\ ld_pc = "returned"
    /\ RawSports("Porsche", Model911, Yr(2020), Price120000) \in Range(sports)
    /\ \E r \in Range(epa_sports_mapped) :
          SportsKey(r) = <<"Porsche", Model911, Yr(2020)>> /\ r.Price = Null
    /\ CountKey(sports_clean, <<"Porsche", Model911, Yr(2020)>>) = 1
    /\ \E x \in Range(sports_clean) : x.Price = Flt(FALSE, 120000, 0)

KeysOf(df) == {SportsKey(df[i]) : i \in DOMAIN df}
\* two cells hold the same value: both missing, or the same number
SameCell(a, b) == IF IsNumber(a) /\ IsNumber(b) THEN SameNumber(a, b) ELSE a = b

\* C3: for a key that is in one input of the merge only (the sports table or the
\* mapped EPA rows), the merged table holds the input's rows of that key, as many
\* and with the same fields; the numeric conversion that follows leaves the
\* numbers and the missing cells of those rows as they were.
C3_UniqueKeysPassThrough ==
    \A k \in (KeysOf(sports) \cup KeysOf(epa_sports_mapped))
             \ (KeysOf(sports) \cap KeysOf(epa_sports_mapped)) :
        \A r \in {x \in Range(sports) \cup Range(epa_sports_mapped) : SportsKey(x) = k} :
            /\ mg_pc = "merged" =>
                  CountRow(enriched_sports, r)
                     = CountRow(sports \o epa_sports_mapped, r)
            /\ mg_pc \in {"converted", "saved"} =>
                  \E x \in Range(enriched_sports) :
                     /\ SportsKey(x) = k
                     /\ \A c \in Range(numeric_cols_to_convert) :
                           (IsNumber(r[c]) \/ r[c] = Null) => SameCell(x[c], r[c])

\* a merge with a key of the sports table only and a key of the EPA rows only, of
\* the same make and model
C3_Witness ==
    /\ mg_pc = "merged"
    /\ Len(enriched_sports) = Len(sports) + Len(epa_sports_mapped)
    /\ \E k \in KeysOf(sports) \ KeysOf(epa_sports_mapped) :
          \E q \in KeysOf(epa_sports_mapped) \ KeysOf(sports) :
              k[1] = q[1] /\ k[2] = q[2]

\* C4, as stated: a row without a year is not in the merged table, and the number
\* of rows dropped for it is reported.
C4_MissingYearDroppedAndCounted ==
    /\ Merged => \A r \in Range(enriched_sports) : r.Year # Null
    /\ (mg_pc = "saved" /\ ld_pc = "returned") =>
          LET dropped == Cardinality({i \in DOMAIN ld_sports : ld_sports[i].Year = Null})
          IN  dropped > 0 =>
                  <<"rows without a year dropped", dropped>> \in ld_printed

HasDigit(s) == \E i \in DOMAIN s : s[i] \in DigitChars

\* the first longest piece of a text that is a number: digits with at most one point
FirstNumber(s) ==
    LET IsNumeral(a, b) ==
            /\ \A i \in a..b : s[i] \in NumChars
            /\ Cardinality({i \in a..b : s[i] = "."}) <= 1
            /\ \E i \in a..b : s[i] \in DigitChars
        a == CHOOSE x \in DOMAIN s :
                /\ \E y \in x..Len(s) : IsNumeral(x, y)
                /\ \A z \in 1..(x - 1) : \A y \in z..Len(s) : ~IsNumeral(z, y)
        b == CHOOSE y \in a..Len(s) :
                IsNumeral(a, y) /\ \A z \in (y + 1)..Len(s) : ~IsNumeral(a, z)
    IN  ParseFloat(SubSeq(s, a, b))

\* C5, as stated: a text with a digit in it is cleaned to the number its first
\* longest piece of digits with at most one point denotes, once "," and "$" are out.
C5_FirstNumeralParsed ==
    (nz_pc = "done" /\ nz_raw.t = "str" /\ HasDigit(nz_raw.s)) =>
        nz_cell = FirstNumber(Remove(Remove(nz_raw.s, ","), "$"))

\* C6: a cell without a digit (empty text, text without digits, a missing value) is
\* cleaned to the missing value, never to 0 or any other number.
C6_NoDigitIsMissing ==
    (nz_pc = "done" /\ (nz_raw = Null \/ (nz_raw.t = "str" /\ ~HasDigit(nz_raw.s)))) =>
        nz_cell = Null

\* a text of "." and "$" alone: the extract step finds a piece, the result is missing
C6_Witness ==
    /\ nz_pc = "done"
    /\ nz_raw.t = "str" /\ ~HasDigit(nz_raw.s) /\ "." \in Range(nz_raw.s)
    /\ nz_cell = Null

\* C7, as stated: cleaning a cell that holds a number gives the same number.
C7_NumberUnchanged ==
    (nz_pc = "done" /\ IsNumber(nz_raw)) => SameNumber(nz_cell, nz_raw)

\* C8, as stated: a loader given a table without one of the optional numeric
\* columns returns normally.
C8_AbsentColumnSkipped ==
    (mg_pc = "idle" /\ SportsColumns \ ld_columns \subseteq OptionalColumns) =>
        ld_pc \notin {"KeyError", "ValueError"}

\* the keyword is in the model, whatever the case of the letters
Occurs(keyword, text) ==
    \E i, j \in DOMAIN text :
        /\ j - i + 1 = Len(keyword)
        /\ \A n \in 1..Len(keyword) : LowerChar(text[i + n - 1]) = LowerChar(keyword[n])

Performance(r) ==
    \/ r.Make \in sports_brands_full
    \/ /\ r.Model # Null
       /\ \E k \in DOMAIN performance_keywords : Occurs(performance_keywords[k], r.Model.s)

\* C9: filter_sports_from_epa drops an EPA row, and the extraction of
\* enrich_sports_dataset.py takes it, exactly when its make is one of the sports
\* brands (same letters, same case) or its model holds one of the keywords (in any
\* case, anywhere); a row with neither, a row without a model too, is mainstream.
C9_Classification ==
    /\ (fl_pc = "returned" /\ {"Make", "Model"} \subseteq epa_columns) =>
          df_filtered = IF Performance(epa[1]) THEN <<>> ELSE epa
    /\ mg_pc = "extracted" =>
          sports_from_epa = IF Performance(epa[1]) THEN epa ELSE <<>>

\* a BMW whose model holds "m3" in small letters: dropped by one, taken by the other
C9_Witness ==
    /\ fl_pc = "returned" /\ mg_pc = "extracted"
    /\ {"Make", "Model"} \subseteq epa_columns
    /\ epa[1].Make = "BMW"
    /\ epa[1].Model # Null /\ Search(<<"m", "3">>, epa[1].Model.s)
    /\ df_filtered = <<>>
    /\ sports_from_epa = epa

\* C10: every row a yearly aggregator returns has year_min <= year <= year_max, and
\* the rows it is computed from (df_sub) all have a year in that range.
C10_YearBounds ==
    /\ ag_pc \in {"masked", "returned"} =>
          \A r \in Range(df_sub) :
              /\ r.Year # Null
              /\ ag_args.year_min <= r.Year.m /\ r.Year.m <= ag_args.year_max
    /\ ag_pc = "returned" =>
          \A k \in DOMAIN grouped :
              /\ ag_args.year_min <= grouped[k].Year
              /\ grouped[k].Year <= ag_args.year_max
              /\ \E r \in Range(df_sub) : r.Year = Yr(grouped[k].Year)

\* a one-year range, a row of that year, a row of another year and a row without
C10_Witness ==
    /\ ag_pc = "returned"
    /\ ag_args.year_min = ag_args.year_max
    /\ Len(grouped) = 1
    /\ \E r \in Range(ag_df) : r.Year # Null /\ r.Year.m < ag_args.year_min
    /\ \E r \in Range(ag_df) : r.Year = Null

\* the rows a yearly aggregator returned, and the rows they are the means of
AggReturned == ag_pc = "returned" \/ yr_pc = "returned"
AggOut == IF yr_pc = "returned" THEN yr_out ELSE grouped
AggIn == IF yr_pc = "returned" THEN yr_df ELSE df_sub
AggFn == IF yr_pc = "returned" THEN yr_fn ELSE ag_fn

\* C11: the rows every yearly aggregator returns (plots_epa.py, plots_sports.py,
\* aggregates.py) are in strictly increasing year order, so no two rows have the
\* same year, whatever the order and multiplicity of the input rows.
C11_StrictlyIncreasingYears ==
    AggReturned =>
        \A k \in 1..(Len(AggOut) - 1) : AggOut[k].Year < AggOut[k + 1].Year

\* an input with the later year first and a year repeated
C11_Witness ==
    /\ ag_pc = "returned"
    /\ Len(grouped) = 2
    /\ Len(df_sub) = 3
    /\ df_sub[1].Year.m > df_sub[2].Year.m

RECURSIVE SumHundredths(_)
\* 100 times the sum of the numbers of a sequence of cells
SumHundredths(s) ==
    IF s = <<>> THEN 0
    ELSE (IF Head(s).neg THEN -1 ELSE 1) * Head(s).m * Pow10(2 - Head(s).e)
            + SumHundredths(Tail(s))

\* the non-null cells of column c in the rows of year y
CellsOf(df, y, c) ==
    LET rows == SelectSeq(df, LAMBDA r : r.Year = Yr(y))
    IN  SelectSeq([i \in DOMAIN rows |-> rows[i][c]], LAMBDA v : v # Null)

\* C12: each (year, metric) value of a yearly aggregate is the sum of the non-null
\* source values divided by their number (nulls are in neither), and is null when
\* the year has rows but none has a value for the metric.
C12_MeanOfNonNull ==
    AggReturned =>
        \A k \in DOMAIN AggOut : \A c \in Range(metric_columns(AggFn)) :
            LET cells == CellsOf(AggIn, AggOut[k].Year, c)
                mean  == AggOut[k].mean[c]
            IN  IF cells = <<>> THEN mean = Null
                ELSE /\ mean # Null
                     /\ mean.num * 100 * Len(cells) = mean.den * SumHundredths(cells)

\* the example [10, 20, null] of one year, whose mean is 15
C12_Witness ==
    /\ ag_pc = "returned"
    /\ ag_fn = "epa"
    /\ Len(df_sub) = 3
    /\ {df_sub[i].CombinedMpg : i \in 1..3} = {Null, Flt(FALSE, 10, 0), Flt(FALSE, 20, 0)}
    /\ Len(grouped) = 1
    /\ grouped[1].mean["CombinedMpg"] = Rat(15, 1)

\* C13, as stated: the yearly aggregate has exactly one row for every year of the
\* queried range.
C13_DenseYearSeries ==
    ag_pc = "returned" =>
        \A y \in ag_args.year_min..ag_args.year_max :
            Cardinality({k \in DOMAIN grouped : grouped[k].Year = y}) = 1

\* C13, amended: the yearly aggregate has one row for every year of the queried
\* range that has a contributing row, and no row for any other year: years without
\* contributing rows are omitted, all of them.
C13_OneRowPerYearWithRecords ==
    ag_pc = "returned" =>
        /\ \A y \in ag_args.year_min..ag_args.year_max :
              Cardinality({k \in DOMAIN grouped : grouped[k].Year = y})
                 = IF \E r \in Range(df_sub) : r.Year = Yr(y) THEN 1 ELSE 0
        /\ \A k \in DOMAIN grouped :
              grouped[k].Year \in ag_args.year_min..ag_args.year_max

\* a two-year range with rows in the first year only
C13_Witness ==
    /\ ag_pc = "returned"
    /\ ag_args.year_min < ag_args.year_max
    /\ Len(grouped) = 1
    /\ grouped[1].Year = ag_args.year_min
    /\ Len(df_sub) = 2

C15_MissingColumnsNamed ==
    /\ ag_pc \in {"returned", "KeyError"} =>
          LET lacks == AggRequired(ag_fn) \ ag_columns
          IN  IF lacks = {} THEN ag_pc = "returned"
              ELSE ag_pc = "KeyError" /\ ag_error.names = lacks /\ grouped = <<>>
    /\ yr_pc \in {"returned", "ValueError"} =>
          LET lacks == AggRequired(yr_fn) \ yr_columns
          IN  IF lacks = {} THEN yr_pc = "returned"
              ELSE yr_pc = "ValueError" /\ yr_error.names = lacks /\ yr_out = <<>>

\* what holds of aggregates.py alone: the ValueError names every column missing
C15_ValueErrorNamesAll ==
    yr_pc \in {"returned", "ValueError"} =>
        LET lacks == AggRequired(yr_fn) \ yr_columns
        IN  IF lacks = {} THEN yr_pc = "returned"
            ELSE yr_pc = "ValueError" /\ yr_error.names = lacks /\ yr_out = <<>>

\* the position of the first value of a column of the yearly rows that is not
\* null, 0 when there is none
FirstValid(df, c) ==
    IF \A k \in DOMAIN df : df[k].mean[c] = Null THEN 0
    ELSE CHOOSE k \in DOMAIN df :
            /\ df[k].mean[c] # Null
            /\ \A j \in 1..(k - 1) : df[j].mean[c] = Null

TrNormalized == tr_pc = "plotting" /\ tr_normalize

\* p is 100 * v / b, for fractions v and b and a cell p
IsHundredTimes(p, v, b) ==
    /\ p # Null
    /\ p.num * v.den * b.num = 100 * v.num * b.den * p.den

\* C16: the normalization of a trend figure maps every value v of a column whose
\* first non-null value b is not zero to 100 * v / b (a null stays null), and the
\* first non-null entry becomes exactly 100.
C16_BaseYearNormalization ==
    TrNormalized =>
        \A c \in Range(normalized_columns(tr_fn)) :
            LET k0 == FirstValid(yearly, c)
            IN  (k0 # 0 /\ yearly[IF k0 = 0 THEN 1 ELSE k0].mean[c].num # 0) =>
                   /\ plot_df[k0].mean[c] = Rat(100, 1)
                   /\ \A k \in DOMAIN yearly :
                         IF yearly[k].mean[c] = Null THEN plot_df[k].mean[c] = Null
                         ELSE IsHundredTimes(plot_df[k].mean[c], yearly[k].mean[c],
                                             yearly[k0].mean[c])

\* the example [40, 44, 48], normalized to [100, 110, 120]
C16_Witness ==
    /\ TrNormalized
    /\ Len(yearly) = 3
    /\ LET c == normalized_columns(tr_fn)[1]
       IN  /\ [k \in 1..3 |-> yearly[k].mean[c]] = <<Rat(40, 1), Rat(44, 1), Rat(48, 1)>>
           /\ [k \in 1..3 |-> plot_df[k].mean[c]] = <<Rat(100, 1), Rat(110, 1), Rat(120, 1)>>

\* the index series built so far
Built(n) == ix_index[n] # <<>>

\* C17: in every normalization path, when the base is zero or there is no non-null
\* base, every value of the normalized series of that metric is exactly 100.
C17_DegenerateBaseIsHundred ==
    /\ TrNormalized =>
          \A c \in Range(normalized_columns(tr_fn)) :
              LET k0 == FirstValid(yearly, c)
              IN  (k0 = 0 \/ yearly[IF k0 = 0 THEN 1 ELSE k0].mean[c].num = 0) =>
                     \A k \in DOMAIN plot_df : plot_df[k].mean[c] = Rat(100, 1)
    /\ ix_pc # "idle" =>
          \A n \in Range(SeriesNames) :
              (/\ Built(n)
               /\ \/ ix_yearly[n][1].value = Null
                  \/ ix_yearly[n][1].value.num = 0)
              => \A k \in DOMAIN ix_index[n] : ix_index[n][k].index = Rat(100, 1)

\* what holds of make_indices_chart alone: a base that is zero or NaN gives 100 in
\* every row of the series
C17_IndicesChartDegenerate ==
    ix_pc # "idle" =>
        \A n \in Range(SeriesNames) :
            (/\ Built(n)
             /\ \/ ix_yearly[n][1].value = Null
                \/ ix_yearly[n][1].value.num = 0)
            => \A k \in DOMAIN ix_index[n] : ix_index[n][k].index = Rat(100, 1)

\* the position of the first yearly mean of a series that is not null, 0 when none
FirstYearWithData(s) ==
    IF \A k \in DOMAIN s : s[k].value = Null THEN 0
    ELSE CHOOSE k \in DOMAIN s :
            /\ s[k].value # Null
            /\ \A j \in 1..(k - 1) : s[j].value = Null

\* C18: in each index series of make_indices_chart the base is the yearly mean of
\* the first year of the range that has non-null data for the metric: when that
\* mean is positive, that year's index is exactly 100 and every other year's index
\* is 100 * mean(year) / mean(base year) (null for a year whose mean is null).
C18_BaseIsFirstYearWithData ==
    ix_pc # "idle" =>
        \A n \in Range(SeriesNames) :
            LET s  == ix_yearly[n]
                k0 == FirstYearWithData(s)
            IN  (Built(n) /\ k0 # 0 /\ s[IF k0 = 0 THEN 1 ELSE k0].value.num > 0) =>
                   /\ ix_index[n][k0].index = Rat(100, 1)
                   /\ \A k \in DOMAIN s :
                         IF s[k].value = Null THEN ix_index[n][k].index = Null
                         ELSE IsHundredTimes(ix_index[n][k].index, s[k].value, s[k0].value)

\* what holds instead: the base is the mean of the first year that has rows
C18_BaseIsFirstRow ==
    ix_pc # "idle" =>
        \A n \in Range(SeriesNames) :
            LET s == ix_yearly[n]
            IN  (Built(n) /\ s[1].value # Null /\ s[1].value.num > 0) =>
                   /\ ix_index[n][1].index = Rat(100, 1)
                   /\ \A k \in DOMAIN s :
                         IF s[k].value = Null THEN ix_index[n][k].index = Null
                         ELSE IsHundredTimes(ix_index[n][k].index, s[k].value, s[1].value)

\* C19: when the year range and the filters leave no row for a segment or for a
\* whole query, the operation (a yearly aggregator, compute_fuel_share_by_year,
\* make_indices_chart) returns an empty result and does not raise.
C19_EmptyResultDoesNotRaise ==
    /\ (ix_pc # "idle" /\ (sports_filtered = <<>> \/ epa_gas = <<>> \/ epa_ev = <<>>))
          => ix_pc # "KeyError"
    /\ (ag_pc # "idle" /\ AggRequired(ag_fn) \subseteq ag_columns /\ df_sub = <<>>)
          => ag_pc # "KeyError"
    /\ (fs_pc # "idle" /\ "FuelType" \in fs_columns /\ fs_sub = <<>>)
          => fs_pc \notin {"KeyError", "ValueError"}

\* what holds of the yearly aggregators: no row left by the filters gives an
\* empty result, not an error
C19_AggregatorsEmpty ==
    (ag_pc \notin {"idle", "called", "masked"}
     /\ AggRequired(ag_fn) \subseteq ag_columns /\ df_sub = <<>>)
    => ag_pc = "returned" /\ grouped = <<>>

\* what holds of the fuel-share table: no row left by the filters gives an empty
\* table (or the dashboard's message), not an error
C19_FuelShareEmpty ==
    (fs_pc \in {"pivoted", "no_data", "ValueError"}
     /\ "FuelType" \in fs_columns /\ fs_sub = <<>>)
    => \/ fs_pc = "pivoted" /\ fuel_wide = <<>>
       \/ fs_pc = "no_data"

\* the number of filtered rows of a year and a category
CountOf(y, cat) ==
    Cardinality({i \in DOMAIN fs_sub : fs_sub[i].Year = Yr(y) /\ fs_sub[i].Category = cat})

\* C20: in the fuel-share count table the columns are exactly the distinct
\* categories of the rows left by the year and category filters (a missing fuel
\* type is no category), and the cell of a
\* year y and a category c is the number of those rows with year y and category c:
\* 0, not null, when the year has no row of the category.
C20_CountTable ==
    fs_pc = "pivoted" =>
        \A k \in DOMAIN fuel_wide :
            /\ DOMAIN fuel_wide[k].count
                  = {fs_sub[i].Category : i \in DOMAIN fs_sub} \ {NoFuelType}
            /\ \A cat \in DOMAIN fuel_wide[k].count :
                  fuel_wide[k].count[cat] = Rat(CountOf(fuel_wide[k].Year, cat), 1)

\* a table of two years and two categories with a cell 0 and a cell 2
C20_Witness ==
    /\ fs_pc = "pivoted"
    /\ Len(fuel_wide) = 2
    /\ Cardinality(DOMAIN fuel_wide[1].count) = 2
    /\ \E k \in 1..2 : \E cat \in DOMAIN fuel_wide[k].count :
          fuel_wide[k].count[cat] = Rat(0, 1)
    /\ \E k \in 1..2 : \E cat \in DOMAIN fuel_wide[k].count :
          fuel_wide[k].count[cat] = Rat(2, 1)

\* the years of the rows counted
CountedYears == {c.Year : c \in fuel_counts}

Percentage == fs_pc = "plotting" /\ fs_args.use_percent

\* C21: in percentage mode, for every year with at least one record in the
\* filtered data, the cells of the year's row of the fuel-share table sum to 100,
\* and every cell lies between 0 and 100.
C21_PercentRowsSumToHundred ==
    Percentage =>
        \A y \in {fs_sub[i].Year.m : i \in DOMAIN fs_sub} :
            \E k \in DOMAIN fuel_wide :
                /\ fuel_wide[k].Year = y
                /\ RowSum(fuel_wide[k]) = Rat(100, 1)
                /\ \A col \in DOMAIN fuel_wide[k].count :
                      /\ RatLeq(Rat(0, 1), fuel_wide[k].count[col])
                      /\ RatLeq(fuel_wide[k].count[col], Rat(100, 1))

\* what holds of percentage mode: every row of the table sums to 100, with every
\* cell between 0 and 100, and the rows are the years with a filtered record that
\* has a category
C21_EveryRowSumsToHundred ==
    Percentage =>
        /\ {fuel_wide[k].Year : k \in DOMAIN fuel_wide}
              = {fs_sub[i].Year.m : i \in {j \in DOMAIN fs_sub :
                                              fs_sub[j].Category # NoFuelType}}
        /\ \A k \in DOMAIN fuel_wide :
              /\ RowSum(fuel_wide[k]) = Rat(100, 1)
              /\ \A col \in DOMAIN fuel_wide[k].count :
                    /\ RatLeq(Rat(0, 1), fuel_wide[k].count[col])
                    /\ RatLeq(fuel_wide[k].count[col], Rat(100, 1))

\* percentage mode, a year shared two to one between two categories
C21_Witness ==
    /\ Percentage
    /\ \E k \in DOMAIN fuel_wide :
          /\ Cardinality(DOMAIN fuel_wide[k].count) = 2
          /\ \E col \in DOMAIN fuel_wide[k].count : fuel_wide[k].count[col] = Rat(200, 3)

\* C28: every row of a fuel-share table is a year with at least one counted
\* record, so every row sum of counts is at least 1: a year of the range with no
\* matching record is never a row, and the substitution of 1 for a row sum of 0
\* in percentage mode never takes effect.
C28_RowSumAtLeastOne ==
    fs_pc = "pivoted" =>
        \A k \in DOMAIN fuel_wide :
            /\ fuel_wide[k].Year \in CountedYears
            /\ \E i \in DOMAIN fs_sub : fs_sub[i].Year = Yr(fuel_wide[k].Year)
            /\ RatLeq(Rat(1, 1), RowSum(fuel_wide[k]))
            /\ ReplaceZero(RowSum(fuel_wide[k])) = RowSum(fuel_wide[k])

\* a table with a row, for a range with a year that has no matching record
C28_Witness ==
    /\ fs_pc = "pivoted"
    /\ fuel_wide # <<>>
    /\ fs_args.use_percent
    /\ \E y \in fs_args.year_min..fs_args.year_max :
          /\ \A i \in DOMAIN fs_sub : fs_sub[i].Year # Yr(y)
          /\ \E i \in DOMAIN fs_df : fs_df[i].Year = Yr(y)

\* C22: no operation changes the table passed to it: after any sequence of
\* calls of filter_sports_from_epa, the yearly aggregators, the fuel-share and
\* trend figure builders, make_indices_chart and the chart updates of the
\* dashboard, the caller's tables have the rows, columns and values they had.
C22_InputsNotModified ==
    [][heap' = heap]_vars

\* update_fuel_share_chart has returned a table that is not one of the caller's,
\* and the caller has rows in both tables
C22_Witness ==
    /\ fr_call = "update_fuel_share_chart"
    /\ Len(heap[1]) = 2 /\ Len(heap[2]) = 2
    /\ fr_result # <<>>
    /\ fr_result # heap[1]

\* the merge has run and its table is not yet saved; saving and loading leave the
\* table as it is
MergeDone == mg_pc \in {"merged", "converted"}

\* the rows of the merged table with the key of an EPA row
MergedFor(r) == {j \in DOMAIN enriched_sports : SportsKey(enriched_sports[j]) = EpaKey(r)}

\* the merged row m carries the mapped values of the EPA row r
MappedFrom(m, r) ==
    /\ SameCell(m.EngineSize, r.Displacement)
    /\ SameCell(m.Horsepower, r.HorsepowerEst)
    /\ SameCell(m.ZeroSixty, r.ZeroSixtyEst)
    /\ m.Torque = Null
    /\ m.Price = Null

\* the first row of the EPA table with the key of r
FirstOfKey(r) ==
    epa[CHOOSE i \in DOMAIN epa :
            /\ EpaKey(epa[i]) = EpaKey(r)
            /\ \A j \in 1..(i - 1) : EpaKey(epa[j]) # EpaKey(r)]

\* the EPA row r has no row among those the merge added
AddsNothing(r) == \A j \in MergedFor(r) : j <= Len(sports)

\* C23, as stated: an EPA row classified as performance whose (make, model, year)
\* is not a key of the sports table is in the merged table as exactly one row, with
\* engine size = its displacement, horsepower = its estimated horsepower, 0-60
\* time = its estimated 0-60 time, and torque and price null; a row classified
\* mainstream adds no row.
C23_EpaRecordMapped ==
    MergeDone =>
        \A r \in Range(epa) :
            IF Performance(r)
            THEN EpaKey(r) \notin KeysOf(sports) =>
                    /\ Cardinality(MergedFor(r)) = 1
                    /\ \A j \in MergedFor(r) : MappedFrom(enriched_sports[j], r)
            ELSE AddsNothing(r)

\* C23, amended: the one row of the key carries the values of the first EPA row
\* with that key, in the order of the EPA file.
C23_FirstEpaRecordOfKeyMapped ==
    MergeDone =>
        \A r \in Range(epa) :
            IF Performance(r)
            THEN EpaKey(r) \notin KeysOf(sports) =>
                    /\ Cardinality(MergedFor(r)) = 1
                    /\ \A j \in MergedFor(r) : MappedFrom(enriched_sports[j], FirstOfKey(r))
            ELSE AddsNothing(r)

\* a performance key with two EPA rows of different displacement and a mainstream
\* row, merged into a sports table without that key: one row is added
C23_Witness ==
    /\ mg_pc = "converted"
    /\ Len(enriched_sports) = Len(sports) + 1
    /\ \E i, j \in DOMAIN epa :
          /\ i < j
          /\ EpaKey(epa[i]) = EpaKey(epa[j])
          /\ epa[i].Displacement # epa[j].Displacement
          /\ epa[i].Year # Null
    /\ \E i \in DOMAIN epa : ~Performance(epa[i])

\* the rows of the sports input are the first rows of the merged table
SportsRowsKept ==
    /\ Len(enriched_sports) >= Len(sports)
    /\ \A i \in DOMAIN sports :
          IF mg_pc = "merged" THEN enriched_sports[i] = sports[i]
          ELSE enriched_sports[i]
                  = CleanRow("enrich", sports[i], Range(numeric_cols_to_convert))

C25_OneRowPerKeyInRange ==
    (ld_pc = "returned" /\ ld_fn = "sports_mpg") =>
        /\ \A i, j \in DOMAIN sports_clean :
              i < j => SportsKey(sports_clean[i]) # SportsKey(sports_clean[j])
        /\ \A i \in DOMAIN sports_clean : InYearRange(sports_clean[i].Year, ld_range)
        /\ \A r \in Range(ld_sports) :
              InYearRange(r.Year, ld_range) => CountKey(sports_clean, SportsKey(r)) = 1

\* an input with two rows of one key in the range and a row out of it: one row
\* is returned
C25_Witness ==
    /\ ld_pc = "returned" /\ ld_fn = "sports_mpg"
    /\ Len(ld_sports) = 3
    /\ Len(sports_clean) = 1
    /\ \E i, j \in DOMAIN ld_sports :
          /\ i < j
          /\ SportsKey(ld_sports[i]) = SportsKey(ld_sports[j])
          /\ InYearRange(ld_sports[i].Year, ld_range)
    /\ \E i \in DOMAIN ld_sports :
          ld_sports[i].Year # Null /\ ~InYearRange(ld_sports[i].Year, ld_range)

\* both classifiers are done with a file that has the two columns
Split ==
    /\ fl_pc = "returned" /\ mg_pc = "extracted"
    /\ {"Make", "Model"} \subseteq epa_columns

\* C27, as stated: the rows filter_sports_from_epa keeps and the rows the
\* enrichment step extracts are complementary: every row of the EPA file is in
\* exactly one of the two, none in both and none lost.
C27_PartitionsComplementary ==
    Split =>
        \A r \in Range(epa) :
            CountRow(df_filtered, r) + CountRow(sports_from_epa, r) = CountRow(epa, r)

\* C27, amended: filter_sports_from_epa keeps the rows that are not performance
\* rows; the extraction holds, of the performance rows, the first of every
\* (make, model, year); so no row is in both, and a row is in neither exactly when
\* it is a performance row that repeats the key of an earlier one.
C27_ComplementaryUpToDuplicateKeys ==
    Split =>
        /\ df_filtered = SelectSeq(epa, LAMBDA r : ~Performance(r))
        /\ Range(sports_from_epa) = {FirstOfKey(r) : r \in {x \in Range(epa) : Performance(x)}}
        /\ \A i, j \in DOMAIN sports_from_epa :
              i < j => EpaKey(sports_from_epa[i]) # EpaKey(sports_from_epa[j])
        /\ Range(df_filtered) \cap Range(sports_from_epa) = {}

\* a file with a mainstream row and two performance rows of one key
C27_Witness ==
    /\ Split
    /\ Len(epa) = 3
    /\ Len(df_filtered) = 1
    /\ Len(sports_from_epa) = 1
    /\ epa[2] # epa[3]

\* _validate_year_range has run for the change being delivered, or none is
ValidationDone == cp_pending = <<>> \/ Head(cp_pending) # "_validate_year_range"

\* C26: after any sequence of changes of the two spin boxes, year_min <= year_max
\* holds once _validate_year_range has run; the correction changes year_min only
\* (year_max changes only when the user sets it); and, the validation being
\* connected before the chart updates, every chart update reads a pair with
\* year_min <= year_max.
C26_YearRangeValid ==
    /\ [](ValidationDone => year_min_spin <= year_max_spin)
    /\ [](cp_read # NotRead => cp_read[1] <= cp_read[2])
    /\ [][cp_pending # <<>> => year_max_spin' = year_max_spin]_vars

\* the user has set the minimum to 2020 above the maximum 2015: the minimum is
\* 2015 and the charts have read (2015, 2015)
C26_Witness ==
    /\ cp_pending = <<>>
    /\ cp_user = [spin |-> "year_min_spin", value |-> 2020]
    /\ year_min_spin = 2015 /\ year_max_spin = 2015
    /\ cp_read = <<2015, 2015>>

\* the index labels of the records of the year range
RecordsOfRange ==
    {i \in DOMAIN db_epa : InYearRange(db_epa[i].Year, db_range)}

\* C29: with neither the Gasoline nor the Electric box checked the EPA trend,
\* comparison and fuel-share charts are computed with no category filter, from
\* the records of every fuel type of the year range; these records include the
\* ones used with both boxes checked, and are the ones that None or an empty list
\* as the filter gives.
C29_NoBoxNoFilter ==
    (db_chart \in DbCharts /\ db_read = <<FALSE, FALSE>>) =>
        /\ db_sub = RecordsOfRange
        /\ ChartRecords(db_chart, db_epa, db_range, TRUE, TRUE) \subseteq db_sub
        /\ db_sub = AggregatorRecords(db_epa, db_range, NoneArg)
        /\ db_sub = AggregatorRecords(db_epa, db_range, ListArg(<<>>))

\* a chart computed with no box checked from a record whose fuel type is in
\* neither group, which both boxes checked leave out
C29_Witness ==
    /\ db_chart \in DbCharts /\ db_read = <<FALSE, FALSE>>
    /\ \E i \in db_sub :
          /\ db_epa[i].FuelType \notin gas_types \cup electric_types
          /\ i \notin ChartRecords(db_chart, db_epa, db_range, TRUE, TRUE)
    /\ ChartRecords(db_chart, db_epa, db_range, TRUE, TRUE) # {}

\* C30: update_comparison_chart does not raise for any control state with
\* year_min <= year_max, with year_min = year_max and with ranges where both
\* aggregates have rows but no metric has two yearly means that are not null (no
\* slope line is drawn).
C30_ComparisonChartDoesNotRaise ==
    (cmp_pc # "idle" /\ cmp_range[1] <= cmp_range[2]) => cmp_pc # "ValueError"

\* what holds: the chart is drawn when a sloped line was collected and every end
\* value is finite, and shows its message when an aggregate has no row
C30_DrawnWhenSlopes ==
    /\ cmp_pc = "drawn" => metrics_data # <<>>
    /\ cmp_pc = "no_data" => (sports_yearly = <<>> \/ epa_yearly = <<>>)
    /\ cmp_pc = "ValueError" =>
          \/ metrics_data = <<>>
          \/ \E k \in DOMAIN metrics_data : metrics_data[k].end = Inf

====
